---- MODULE Spec2Model ----
(***************************************************************************)
(* A model of scratchcommunication's cloud-socket transport: the framing   *)
(* handler CloudSocket.listen.on_packet, the codec, the channel cipher,    *)
(* accept / recv_from_client / send_to_client and the stop cascade.        *)
(*                                                                         *)
(* A Python str is a sequence of one-character strings; time is counted in *)
(* hundredths of a second, the unit of the 15-digit salt.                  *)
(***************************************************************************)
EXTENDS Integers, Sequences, FiniteSets, TLC

(* ------------------------------------------------------------------ *)
(* Python str / int helpers                                            *)
(* ------------------------------------------------------------------ *)

Digits == <<"0", "1", "2", "3", "4", "5", "6", "7", "8", "9">>

IsDigit(c) == \E i \in 1..10 : Digits[i] = c

DigitVal(c) == (CHOOSE i \in 1..10 : Digits[i] = c) - 1

Min(a, b) == IF a < b THEN a ELSE b

Max(a, b) == IF a > b THEN a ELSE b

\* s[:n]
Take(s, n) == SubSeq(s, 1, Min(Max(n, 0), Len(s)))

\* s[n:]
Drop(s, n) == SubSeq(s, Min(Max(n, 0), Len(s)) + 1, Len(s))

\* s[-n:] for n > 0
TakeLast(s, n) == Drop(s, Len(s) - n)

\* s[:-n] for n > 0
DropLast(s, n) == Take(s, Len(s) - n)

\* s.startswith(p)
StartsWith(s, p) == Len(s) >= Len(p) /\ SubSeq(s, 1, Len(p)) = p

\* s.endswith(p)
EndsWith(s, p) == Len(s) >= Len(p) /\ SubSeq(s, Len(s) - Len(p) + 1, Len(s)) = p

\* c in s
Contains(s, c) == \E i \in 1..Len(s) : s[i] = c

\* s.replace(c, "")
Remove(s, c) == SelectSeq(s, LAMBDA x : x # c)

\* the position of the first c in s, 0 when there is none
Find(s, c) == IF Contains(s, c) THEN CHOOSE i \in 1..Len(s) : s[i] = c /\ \A j \in 1..(i - 1) : s[j] # c ELSE 0

\* s.split(c, 1)[0]
SplitHead(s, c) == IF Find(s, c) = 0 THEN s ELSE SubSeq(s, 1, Find(s, c) - 1)

\* s.split(c, 1)[1]; only defined when c occurs in s (IndexError otherwise)
SplitTail(s, c) == SubSeq(s, Find(s, c) + 1, Len(s))

\* whether int(s) succeeds for a str s: an optional sign, then digits only
IntParses(s) ==
    LET body == IF Len(s) > 0 /\ s[1] \in {"-", "+"} THEN Drop(s, 1) ELSE s
    IN  Len(body) > 0 /\ \A i \in 1..Len(body) : IsDigit(body[i])

RECURSIVE DigitsValue(_)
\* int(s) for a str of digits, by halves
DigitsValue(s) ==
    IF Len(s) = 0 THEN 0
    ELSE IF Len(s) = 1 THEN DigitVal(s[1])
    ELSE LET half == Len(s) \div 2
         IN  DigitsValue(Take(s, half)) * 10 ^ (Len(s) - half) + DigitsValue(Drop(s, half))

\* str(n) for an int n >= 0
IntToStr(n) ==
    LET width == CHOOSE k \in 1..10 : n \div 10 ^ (k - 1) \in 0..9
    IN  [i \in 1..width |-> Digits[((n \div 10 ^ (width - i)) % 10) + 1]]

RECURSIVE Concat(_)
\* "".join(parts), by halves
Concat(parts) ==
    IF Len(parts) = 0 THEN <<>>
    ELSE IF Len(parts) = 1 THEN parts[1]
    ELSE LET half == Len(parts) \div 2
         IN  Concat(Take(parts, half)) \o Concat(Drop(parts, half))

\* batched(iterable, n), each batch joined to a str
batched(s, n) == [i \in 1..((Len(s) + n - 1) \div n) |-> SubSeq(s, (i - 1) * n + 1, Min(i * n, Len(s)))]

(* ------------------------------------------------------------------ *)
(* Codec                                                               *)
(* ------------------------------------------------------------------ *)

alphabet == <<"a", "b", "c", "d", "e", "f", "g", "h", "i", "j", "k", "l", "m", "n", "o", "p", "q", "r", "s", "t", "u", "v", "w", "x", "y", "z">>

alphabet_upper == <<"A", "B", "C", "D", "E", "F", "G", "H", "I", "J", "K", "L", "M", "N", "O", "P", "Q", "R", "S", "T", "U", "V", "W", "X", "Y", "Z">>

special_characters == <<" ", ".", ",", "-", ":", ";", "_", "'", "#", "!", "\"", "§", "$", "%", "&", "/", "(", ")", "=", "?", "{", "[", "]", "}", "\\", "0", "1", "2", "3", "4", "5", "6", "7", "8", "9", "<", ">", "ß", "*">>

chars == alphabet \o alphabet_upper \o special_characters

\* char in char_to_idx
InChars(c) == \E i \in 1..Len(chars) : chars[i] = c

\* the 1-based position of a character of the table
IdxOf(c) == CHOOSE i \in 1..Len(chars) : chars[i] = c

\* cloud_socket.char_to_idx[c]: the position, 1-based, as two digits
char_to_idx(c) == <<Digits[(IdxOf(c) \div 10) + 1], Digits[(IdxOf(c) % 10) + 1]>>

\* one step of a _decode that takes the pair for a 0-based position
DecodePair_zero_based(a, b) ==
    LET char_idx == 10 * DigitVal(a) + DigitVal(b)
    IN  IF char_idx >= Len(chars) THEN <<>>
        ELSE IF char_idx < 0 THEN <<chars[Len(chars) + char_idx + 1]>>
        ELSE <<chars[char_idx + 1]>>

\* one step of _decode's loop: chars[int(pair) - 1], with Python's negative
\* indexing, and nothing (a warning) on IndexError
DecodePair(a, b) ==
    LET char_idx == 10 * DigitVal(a) + DigitVal(b) - 1
    IN  IF char_idx >= Len(chars) THEN <<>>
        ELSE IF char_idx < 0 THEN <<chars[Len(chars) + char_idx + 1]>>
        ELSE <<chars[char_idx + 1]>>

\* CloudSocket._decode: the characters of the pairs zip(data[::2], data[1::2]),
\* in order
_decode(data) ==
    LET pairs == [i \in 1..(Len(data) \div 2) |-> DecodePair(data[2 * i - 1], data[2 * i])]
        decoded == SelectSeq(pairs, LAMBDA pair : pair # <<>>)
    IN  [i \in 1..Len(decoded) |-> decoded[i][1]]

\* the loop of CloudSocket._encode: two digits per character, "?" for an unknown one
EncodeChars(data) ==
    [i \in 1..(2 * Len(data)) |->
        LET char == data[(i + 1) \div 2]
        IN  (IF InChars(char) THEN char_to_idx(char) ELSE char_to_idx("?"))[2 - (i % 2)]]

\* CloudSocket._encode
_encode(data) == <<"1">> \o EncodeChars(data)

(* ------------------------------------------------------------------ *)
(* Channel cipher (security.SymmetricEncryption) and key exchange      *)
(* ------------------------------------------------------------------ *)

RECURSIVE BitXor(_, _)
\* a ^ b on non-negative ints
BitXor(a, b) == IF a = 0 THEN b ELSE IF b = 0 THEN a ELSE 2 * BitXor(a \div 2, b \div 2) + ((a + b) % 2)

RECURSIVE PositionSum(_, _)
PositionSum(s, offset) ==
    IF Len(s) = 0 THEN 0
    ELSE IF Len(s) = 1 THEN (s[1] * (offset + 1) * (offset + 1) + 3) % 65521
    ELSE LET half == Len(s) \div 2
         IN  (PositionSum(Take(s, half), offset) + PositionSum(Drop(s, half), offset + half)) % 65521

WeightedSum(s) == PositionSum(s, 0)

\* hashlib.sha256(bytes(str(key), "utf-8")[-53:]).digest()[:16]: the digest is a
\* fixed function of the last 53 characters of str(key), here 16 bytes
hashed_key(key) ==
    LET text == TakeLast(IntToStr(key), 53)
        seed == WeightedSum([i \in 1..Len(text) |-> DigitVal(text[i]) + 1])
    IN  [i \in 1..16 |-> (seed * (i + 2) + 37 * i) % 256]

\* security.bin_xor: the decimal digits of number, paired into bytes, xored
\* into the front of the key bytes
bin_xor(bytes, number) ==
    LET pairs == batched(IntToStr(number), 2)
        byte_list == [i \in 1..Len(pairs) |-> DigitsValue(pairs[i])]
    IN  [i \in 1..Len(bytes) |-> IF i <= Len(byte_list) THEN BitXor(bytes[i], byte_list[i]) ELSE bytes[i]]

\* AES.new(aes_key, AES.MODE_ECB).encrypt(aes_pass.to_bytes(16)): the block
\* cipher is a fixed function of its key and of the block counter
aes_encrypt(aes_key, aes_pass) ==
    LET k == WeightedSum(aes_key)
    IN  [i \in 1..16 |-> (k * (aes_pass + i) + 29 * aes_pass + 11 * i) % 256]

\* the shift applied to the character at 0-based position idx
shift_at(key, salt, idx) == aes_encrypt(bin_xor(hashed_key(key), salt), (idx \div 16) + 1)[(idx % 16) + 1]

END_MARKER == <<"I", "T", "S", "T", "H", "E", "E", "N", "D", "O", "F", "T", "H", "I", "S">>

\* SymmetricEncryption.encrypt with the random seed drawn as seed; every
\* character of data is taken to be in the table (KeyError otherwise)
encrypt(key, data, salt, seed) ==
    LET padded == data \o END_MARKER
    IN  IntToStr(seed) \o <<":">> \o IntToStr(Len(data)) \o <<":">> \o
        [i \in 1..Len(padded) |-> chars[((IdxOf(padded[i]) - 1 + shift_at(key, salt, i - 1)) % Len(chars)) + 1]]

\* a decrypt that takes every shift from the first block of the keystream
decrypt_first_block(key, data, salt) ==
    LET seed == SplitHead(data, ":")
        rest == SplitTail(data, ":")
        message_length == SplitHead(rest, ":")
        encrypted == SplitTail(rest, ":")
        decrypted == [i \in 1..Len(encrypted) |-> chars[((IdxOf(encrypted[i]) - 1 - shift_at(key, salt, (i - 1) % 16)) % Len(chars)) + 1]]
    IN  IF ~Contains(data, ":") \/ ~Contains(rest, ":") THEN [ok |-> FALSE, text |-> <<>>]
        ELSE IF ~IntParses(seed) \/ ~IntParses(message_length) THEN [ok |-> FALSE, text |-> <<>>]
        ELSE IF ~EndsWith(decrypted, END_MARKER) \/ DigitsValue(message_length) + Len(END_MARKER) # Len(decrypted)
             THEN [ok |-> FALSE, text |-> <<>>]
        ELSE [ok |-> TRUE, text |-> DropLast(decrypted, Len(END_MARKER))]

\* SymmetricEncryption.decrypt: [ok |-> FALSE] stands for the ValueError of a
\* malformed header or of a bad message
decrypt(key, data, salt) ==
    LET seed == SplitHead(data, ":")
        rest == SplitTail(data, ":")
        message_length == SplitHead(rest, ":")
        encrypted == SplitTail(rest, ":")
        decrypted == [i \in 1..Len(encrypted) |-> chars[((IdxOf(encrypted[i]) - 1 - shift_at(key, salt, i - 1)) % Len(chars)) + 1]]
    IN  IF ~Contains(data, ":") \/ ~Contains(rest, ":") THEN [ok |-> FALSE, text |-> <<>>]
        ELSE IF ~IntParses(seed) \/ ~IntParses(message_length) THEN [ok |-> FALSE, text |-> <<>>]
        ELSE IF ~EndsWith(decrypted, END_MARKER) \/ DigitsValue(message_length) + Len(END_MARKER) # Len(decrypted)
             THEN [ok |-> FALSE, text |-> <<>>]
        ELSE [ok |-> TRUE, text |-> DropLast(decrypted, Len(END_MARKER))]

RECURSIVE pow(_, _, _)
\* pow(base, exponent, modulus)
pow(base, exponent, modulus) ==
    IF exponent = 0 THEN 1 % modulus
    ELSE IF exponent % 2 = 0 THEN pow((base * base) % modulus, exponent \div 2, modulus)
    ELSE (base * pow(base, exponent - 1, modulus)) % modulus

\* the RSAKeys tuple (public_exponent, private_exponent, public_modulus) of the socket
RSA_KEYS == <<17, 2753, 3233>>

\* RSAKeys.decrypt
rsa_decrypt(data) == pow(data % RSA_KEYS[3], RSA_KEYS[2], RSA_KEYS[3])

\* RSAKeys.encrypt
rsa_encrypt(data) == pow(data % RSA_KEYS[3], RSA_KEYS[1], RSA_KEYS[3])

(* ------------------------------------------------------------------ *)
(* Program constants                                                   *)
(* ------------------------------------------------------------------ *)

\* len(self.key_parts) >= 100 ... [:-100]
KEY_PARTS_CAP == 100

\* salt < time.time() + 30, in hundredths of a second
SALT_WINDOW == 3000

\* the digits of the payload that are decoded to recognise a connect frame
CONNECT_PREFIX_DIGITS == 28

\* the digits of a salt
SALT_DIGITS == 15

\* the digits of a fragment id
KEY_PART_ID_DIGITS == 5

\* the characters of a client id
CLIENT_ID_LEN == 5

\* get_packet_size for a TurboWarp connection
TURBOWARP_PACKET_SIZE == 98800

\* get_packet_size for a Scratch connection
SCRATCH_PACKET_SIZE == 220

CONNECT == <<"_", "c", "o", "n", "n", "e", "c", "t">>

SAFE_CONNECT == <<"_", "s", "a", "f", "e", "_", "c", "o", "n", "n", "e", "c", "t", ":">>

FROM_CLIENT == "FROM_CLIENT"

(* ------------------------------------------------------------------ *)
(* CloudSocketMSG and CloudSocketConnection                            *)
(* ------------------------------------------------------------------ *)


\* an add that keeps only the newest part
add_overwriting(message, data) == data

\* CloudSocketMSG.add
add(message, data) == message \o data

\* CloudSocketMSG.finalize
finalize(message, decode) == IF decode THEN _decode(message) ELSE message

\* CloudSocketConnection.__init__: key is -1 for security=None
CloudSocketConnection(client_id, username, key) ==
    [client_id |-> client_id, username |-> username, secure |-> key # -1, key |-> key,
     new_msgs |-> <<>>, current_msg |-> <<>>, received |-> FALSE, receiving |-> 0, sending |-> 0]

(* ------------------------------------------------------------------ *)
(* CloudSocket.listen.on_packet, as a function of the socket's state S *)
(* ------------------------------------------------------------------ *)

\* whether the first 28 digits of the payload decode to a connect frame
is_connect(msg_data) ==
    \/ StartsWith(_decode(Take(msg_data, CONNECT_PREFIX_DIGITS)), CONNECT)
    \/ StartsWith(_decode(Take(msg_data, CONNECT_PREFIX_DIGITS)), SAFE_CONNECT)

\* the locals on_packet derives from event.value alone. A value is made of
\* digits, "-" and "."; typed says that int(value[0]) succeeds, dotted that
\* value.split(".", 1)[1] does
packet(event_value) ==
    LET value == Remove(event_value, "-")
        msg_data == Drop(SplitHead(value, "."), 1)
        typed == value # <<>> /\ IsDigit(value[1])
    IN  [event_value |-> event_value,
         minus |-> Contains(event_value, "-"),
         typed |-> typed,
         msg_type |-> IF typed THEN DigitVal(value[1]) ELSE -1,
         msg_data |-> msg_data,
         dotted |-> Contains(value, "."),
         client |-> IF Contains(value, ".") THEN Take(SplitTail(value, "."), CLIENT_ID_LEN) ELSE <<>>,
         is_connect |-> is_connect(msg_data),
         is_safe_connect |-> StartsWith(_decode(Take(msg_data, CONNECT_PREFIX_DIGITS)), SAFE_CONNECT)]

\* the handler ends without touching S: "assert" is a swallowed AssertionError,
\* "raise" any other exception, which leaves on_packet
Ended(S, branch, outcome) == [S EXCEPT !.branch = branch, !.outcome = outcome]

\* key_part_id in self.key_parts
has_key_part(kp, id) == \E i \in 1..Len(kp) : kp[i].id = id

\* self.key_parts[key_part_id]
key_part_of(kp, id) == kp[CHOOSE i \in 1..Len(kp) : kp[i].id = id].part

\* a store that never evicts
store_key_part_unbounded(kp, id, part) == Append(kp, [id |-> id, part |-> part])

\* self.key_parts[key_part_id] = key_part, then the eviction down to the cap
store_key_part(kp, id, part) ==
    LET stored == Append(kp, [id |-> id, part |-> part])
    IN  IF Len(stored) >= KEY_PARTS_CAP THEN TakeLast(stored, KEY_PARTS_CAP) ELSE stored

\* a key fragment handler that stores the part of a known id in its place
key_fragment_overwriting(S, p) ==
    LET key_part_id == Take(p.msg_data, KEY_PART_ID_DIGITS)
        key_part == Drop(p.msg_data, KEY_PART_ID_DIGITS)
    IN  IF has_key_part(S.key_parts, key_part_id)
        THEN [S EXCEPT !.key_parts = [i \in 1..Len(@) |-> IF @[i].id = key_part_id THEN [id |-> key_part_id, part |-> key_part] ELSE @[i]],
                       !.branch = "key_fragment", !.outcome = "return"]
        ELSE [S EXCEPT !.key_parts = store_key_part(@, key_part_id, key_part),
                       !.branch = "key_fragment", !.outcome = "return"]

\* msg_type == 0
key_fragment(S, p) ==
    LET key_part_id == Take(p.msg_data, KEY_PART_ID_DIGITS)
        key_part == Drop(p.msg_data, KEY_PART_ID_DIGITS)
    IN  IF has_key_part(S.key_parts, key_part_id) THEN Ended(S, "key_fragment", "assert")
        ELSE [S EXCEPT !.key_parts = store_key_part(@, key_part_id, key_part),
                       !.branch = "key_fragment", !.outcome = "return"]

\* new_msgs.append(current_msg); _new_msg(); current_msg = CloudSocketMSG()
enqueue(S, c, message) ==
    [S EXCEPT !.conns[c].new_msgs = Append(@, message),
              !.conns[c].current_msg = <<>>,
              !.conns[c].received = TRUE,
              !.received_any = TRUE,
              !.any_update = TRUE]

\* a non secure message part that completes the message whatever the sign
non_secure_part_ignoring_sign(S, c, p) ==
    LET added == [S EXCEPT !.conns[c].current_msg = add(@, p.msg_data), !.branch = "non_secure"]
    IN  [enqueue(added, c, finalize(added.conns[c].current_msg, TRUE)) EXCEPT !.outcome = "return"]

\* a non secure message part whose body goes into one buffer that all the
\* insecure entries share
non_secure_part_shared_buffer(S, c, p) ==
    LET shared == [i \in 1..Len(S.conns) |->
                      IF S.conns[i].secure THEN S.conns[i]
                      ELSE [S.conns[i] EXCEPT !.current_msg = add(S.conns[c].current_msg, p.msg_data)]]
        added == [S EXCEPT !.conns = shared, !.branch = "non_secure"]
        cleared == [i \in 1..Len(S.conns) |->
                       IF S.conns[i].secure \/ i = c THEN S.conns[i]
                       ELSE [S.conns[i] EXCEPT !.current_msg = <<>>]]
    IN  IF p.minus THEN [added EXCEPT !.outcome = "assert"]
        ELSE [enqueue([added EXCEPT !.conns = [j \in 1..Len(S.conns) |-> IF j = c THEN added.conns[c] ELSE cleared[j]]],
                      c, finalize(added.conns[c].current_msg, TRUE)) EXCEPT !.outcome = "return"]

\* the non secure message part of an insecure client
non_secure_part(S, c, p) ==
    LET added == [S EXCEPT !.conns[c].current_msg = add(@, p.msg_data), !.branch = "non_secure"]
    IN  IF p.minus THEN [added EXCEPT !.outcome = "assert"]
        ELSE [enqueue(added, c, finalize(added.conns[c].current_msg, TRUE)) EXCEPT !.outcome = "return"]

\* a salt check without the assertion against last_timestamp
salt_ok_without_replay_check(salt, last_ts, time) == salt < time + SALT_WINDOW

\* assert salt > self.last_timestamp; assert salt < time.time() + 30
salt_ok(salt, last_ts, time) == salt > last_ts /\ salt < time + SALT_WINDOW

\* the secure message part of a secure client
secure_part(S, c, p, time) ==
    LET salt_str == TakeLast(p.msg_data, SALT_DIGITS)
        salt == DigitsValue(salt_str)
        stamped == [S EXCEPT !.last_timestamp = salt, !.branch = "secure"]
        decoded == decrypt(S.conns[c].key, _decode(DropLast(p.msg_data, SALT_DIGITS)), salt)
        added == [stamped EXCEPT !.conns[c].current_msg = add(@, decoded.text)]
    IN  IF ~IntParses(salt_str) THEN Ended(S, "secure", "raise")
        ELSE IF ~salt_ok(salt, S.last_timestamp, time) THEN Ended(S, "secure", "assert")
        ELSE IF ~decoded.ok THEN [stamped EXCEPT !.outcome = "raise"]
        ELSE IF p.minus THEN [added EXCEPT !.outcome = "assert"]
        ELSE [enqueue(added, c, finalize(added.conns[c].current_msg, FALSE)) EXCEPT !.outcome = "return"]

\* CloudSocket._decrypt_key for RSAKeys: -1 stands for the ValueError of int(key)
_decrypt_key(key) == IF IntParses(key) THEN rsa_decrypt(DigitsValue(key)) ELSE -1

\* the channel binding: str(key) ends or starts with str(int(msg_data[-15:]))
binds(key, salt) == EndsWith(IntToStr(key), IntToStr(salt)) \/ StartsWith(IntToStr(key), IntToStr(salt))

\* the tail of on_packet: the client entry is created and announced
new_user(S, client, user, key, branch) ==
    IF user = "raise" THEN [S EXCEPT !.branch = branch, !.outcome = "raise"]
    ELSE [S EXCEPT !.conns = Append(@, CloudSocketConnection(client, user, key)),
                   !.clients = [k \in (DOMAIN @) \cup {client} |-> IF k = client THEN Len(S.conns) + 1 ELSE @[k]],
                   !.new_clients = Append(@, Len(S.conns) + 1),
                   !.accepted = TRUE,
                   !.any_update = TRUE,
                   !.branch = branch, !.outcome = "return"]

\* a _safe_connect: frame handled without the assertion on the key and the salt
safe_connect_unbound(S, p, time, user) ==
    LET salt == DigitsValue(TakeLast(p.msg_data, SALT_DIGITS))
        stamped == [S EXCEPT !.last_timestamp = salt]
        refs == batched(Drop(DropLast(p.msg_data, SALT_DIGITS), CONNECT_PREFIX_DIGITS), KEY_PART_ID_DIGITS)
        c_key == Concat([i \in 1..Len(refs) |-> key_part_of(S.key_parts, refs[i])])
        key == _decrypt_key(c_key)
    IN  IF S.security = "None" THEN Ended(S, "safe_connect", "assert")
        ELSE IF ~salt_ok(salt, S.last_timestamp, time) THEN Ended(S, "safe_connect", "assert")
        ELSE IF \E i \in 1..Len(refs) : ~has_key_part(S.key_parts, refs[i]) THEN Ended(stamped, "safe_connect", "assert")
        ELSE IF key = -1 THEN Ended(stamped, "safe_connect", "raise")
        ELSE new_user(stamped, p.client, user, key, "safe_connect")

\* the _safe_connect: frame
safe_connect(S, p, time, user) ==
    LET salt == DigitsValue(TakeLast(p.msg_data, SALT_DIGITS))
        stamped == [S EXCEPT !.last_timestamp = salt]
        refs == batched(Drop(DropLast(p.msg_data, SALT_DIGITS), CONNECT_PREFIX_DIGITS), KEY_PART_ID_DIGITS)
        c_key == Concat([i \in 1..Len(refs) |-> key_part_of(S.key_parts, refs[i])])
        key == _decrypt_key(c_key)
    IN  IF S.security = "None" THEN Ended(S, "safe_connect", "assert")
        ELSE IF ~salt_ok(salt, S.last_timestamp, time) THEN Ended(S, "safe_connect", "assert")
        ELSE IF \E i \in 1..Len(refs) : ~has_key_part(S.key_parts, refs[i]) THEN Ended(stamped, "safe_connect", "assert")
        ELSE IF key = -1 THEN Ended(stamped, "safe_connect", "raise")
        ELSE IF ~binds(key, salt) THEN Ended(stamped, "safe_connect", "assert")
        ELSE new_user(stamped, p.client, user, key, "safe_connect")

\* on_packet(event) at time `time`, with p = packet(event.value); user is what
\* event.user yields: a name, "None" (NotSupported) or "raise" (any other
\* exception of the log lookup)
on_packet(S, name, p, time, user) ==
    LET known == p.client \in DOMAIN S.clients
    IN  IF name # FROM_CLIENT THEN Ended(S, "none", "assert")
        ELSE IF ~p.typed THEN Ended(S, "none", "raise")
        ELSE IF p.msg_type = 0 THEN key_fragment(S, p)
        ELSE IF ~p.dotted THEN Ended(S, "none", "raise")
        ELSE IF ~p.is_connect /\ known /\ ~S.conns[S.clients[p.client]].secure
             THEN non_secure_part(S, S.clients[p.client], p)
        ELSE IF ~p.is_connect /\ known /\ S.conns[S.clients[p.client]].secure
             THEN secure_part(S, S.clients[p.client], p, time)
        ELSE IF p.is_safe_connect THEN safe_connect(S, p, time, user)
        ELSE new_user(S, p.client, user, -1, "connect")

(* ------------------------------------------------------------------ *)
(* Request parsing (cloudrequests.requests)                            *)
(* ------------------------------------------------------------------ *)

\* the elements of a sequence
Elements(s) == {s[i] : i \in 1..Len(s)}

\* the least and the greatest element of a non-empty set of ints
Least(S) == CHOOSE i \in S : \A j \in S : i <= j

Greatest(S) == CHOOSE i \in S : \A j \in S : i >= j

\* str.split(sep) for a one-character sep
split(s, sep) ==
    LET at == {i \in 1..Len(s) : s[i] = sep}
        cut(k) == IF k = 0 THEN 0
                  ELSE IF k > Cardinality(at) THEN Len(s) + 1
                  ELSE CHOOSE i \in at : Cardinality({j \in at : j < i}) = k - 1
    IN  [k \in 1..(Cardinality(at) + 1) |-> SubSeq(s, cut(k - 1) + 1, cut(k) - 1)]

\* the whitespace of the character table
Whitespace == {" "}

\* str.strip()
strip(s) ==
    LET kept == {i \in 1..Len(s) : s[i] \notin Whitespace}
    IN  IF kept = {} THEN <<>> ELSE SubSeq(s, Least(kept), Greatest(kept))

\* the characters of the table that \w matches
WordChars == Elements(alphabet) \cup Elements(alphabet_upper) \cup Elements(Digits) \cup {"_", "ß"}

\* re.match(r"\w+", raw).group(), <<>> when the match is None
word_match(raw) ==
    LET stop == {i \in 1..Len(raw) : raw[i] \notin WordChars}
    IN  IF stop = {} THEN raw ELSE Take(raw, Least(stop) - 1)

\* re.match(r"\w+\(.*\)$", raw) is not None
using_python_syntax(raw) ==
    LET k == Len(word_match(raw))
    IN  k >= 1 /\ Len(raw) >= k + 2 /\ raw[k + 1] = "(" /\ raw[Len(raw)] = ")"

\* a parsed argument: the type of the Python value and its text
Value(type, text) == [type |-> type, text |-> text]

\* a parse that ends with (name, args, kwargs)
Parsed(name, args) == [raised |-> "no", name |-> name, args |-> args]

\* a parse that raises
Raised(exception) == [raised |-> exception, name |-> <<>>, args |-> <<>>]

\* an int literal of Python source: digits without a leading zero, or zeros
IsIntLiteral(s) == IntParses(s) /\ Elements(s) \subseteq Elements(Digits) /\ (s[1] # "0" \/ Elements(s) = {"0"})

\* parse_python_request, for argument lists of int literals without keywords:
\* ast.parse raises SyntaxError for a text that is no expression, and
\* arg.value AttributeError for an argument that is no constant
parse_python_request(msg, name) ==
    LET inner == SubSeq(msg, Len(name) + 2, Len(msg) - 1)
        listed == split(inner, ",")
        items == IF Len(listed) >= 2 /\ strip(listed[Len(listed)]) = <<>> THEN DropLast(listed, 1) ELSE listed
    IN  IF strip(inner) = <<>> THEN Parsed(name, <<>>)
        ELSE IF \A i \in 1..Len(items) : IsIntLiteral(strip(items[i]))
             THEN Parsed(name, [i \in 1..Len(items) |-> Value("num", strip(items[i]))])
        ELSE Raised("SyntaxError")

\* float(content) succeeds, for a content of digits and points
FloatParses(s) ==
    /\ Elements(s) \subseteq Elements(Digits) \cup {"."}
    /\ Cardinality({i \in 1..Len(s) : s[i] = "."}) <= 1
    /\ \E i \in 1..Len(s) : IsDigit(s[i])

\* the end of parse_normal_request: the StopIteration handler appends what is
\* left, then assert args.pop(0) == name
parse_normal_end(name, mode, content, args) ==
    LET all == Append(args, Value(mode, content))
    IN  IF mode = "float" /\ ~FloatParses(content) THEN Raised("ValueError")
        ELSE IF mode = "num" /\ ~IntParses(content) THEN Raised("ValueError")
        ELSE IF all[1].text # name THEN Raised("AssertionError")
        ELSE Parsed(name, Tail(all))

RECURSIVE parse_normal_loop(_, _, _, _, _, _, _)
\* the while loop of parse_normal_request from the i-th character on; the
\* modes are ID ("id"), MT ("space"), NUM ("num"), FLT ("float") and STR ("str")
parse_normal_loop(msg, name, i, mode, content, args, open_type) ==
    LET end(m, c, a) == parse_normal_end(name, IF m \in {"id", "space"} THEN "str" ELSE m, c, a)
        \* if mode == STR, with n the j-th character
        in_str(j, c, a, quote) ==
            IF msg[j] = quote
            THEN IF j + 1 > Len(msg) THEN end("str", c, a)
                 ELSE IF msg[j + 1] # " " THEN Raised("AssertionError")
                 ELSE parse_normal_loop(msg, name, j + 2, "space", <<>>, Append(a, Value("str", c)), quote)
            ELSE IF msg[j] = "\\"
            THEN IF j + 1 > Len(msg) THEN end("str", c, a)
                 ELSE parse_normal_loop(msg, name, j + 2, "str", Append(c, msg[j + 1]), a, quote)
            ELSE parse_normal_loop(msg, name, j + 1, "str", Append(c, msg[j]), a, quote)
        \* if mode == NUM, with n the j-th character
        in_num(j, c, a) ==
            IF msg[j] = " "
            THEN IF IntParses(c) THEN parse_normal_loop(msg, name, j + 1, "space", <<>>, Append(a, Value("num", c)), open_type)
                 ELSE Raised("ValueError")
            ELSE parse_normal_loop(msg, name, j + 1, IF msg[j] = "." THEN "float" ELSE "num", Append(c, msg[j]), a, open_type)
        \* if mode == FLT, with n the j-th character
        in_float(j, c, a) ==
            IF msg[j] = " "
            THEN IF FloatParses(c) THEN parse_normal_loop(msg, name, j + 1, "space", <<>>, Append(a, Value("float", c)), open_type)
                 ELSE Raised("ValueError")
            ELSE parse_normal_loop(msg, name, j + 1, "float", Append(c, msg[j]), a, open_type)
        \* if mode == MT, with n the j-th character
        in_space(j, c, a) ==
            IF msg[j] \in {"'", "\""}
            THEN IF j + 1 > Len(msg) THEN end("str", c, a) ELSE in_str(j + 1, c, a, msg[j])
            ELSE IF IsDigit(msg[j]) \/ msg[j] = "." THEN in_num(j, c, a)
            ELSE Raised("SyntaxError")
        \* if mode == ID, with n the j-th character
        in_id(j, c, a) ==
            IF msg[j] = " "
            THEN IF j + 1 > Len(msg) THEN end("space", <<>>, Append(a, Value("str", c)))
                 ELSE in_space(j + 1, <<>>, Append(a, Value("str", c)))
            ELSE parse_normal_loop(msg, name, j + 1, "id", Append(c, msg[j]), a, open_type)
    IN  IF i > Len(msg) THEN end(mode, content, args)
        ELSE IF mode = "id" THEN in_id(i, content, args)
        ELSE IF mode = "space" THEN in_space(i, content, args)
        ELSE IF mode = "float" THEN in_float(i, content, args)
        ELSE IF mode = "num" THEN in_num(i, content, args)
        ELSE in_str(i, content, args, open_type)

\* parse_normal_request
parse_normal_request(msg, name) == parse_normal_loop(msg, name, 1, "id", <<>>, <<>>, "'")

\* one round of the parsing loop of process_request for the sub-request raw:
\* "skip" for a sub-request without a name, KeyError for a name that is not
\* registered, PermissionError for a call form that is not allowed
parse_sub_request(registry, raw) ==
    LET req_name == word_match(raw)
    IN  IF req_name = <<>> THEN Raised("skip")
        ELSE IF req_name \notin DOMAIN registry THEN Raised("KeyError")
        ELSE IF using_python_syntax(raw) /\ registry[req_name].allow_python_syntax THEN parse_python_request(raw, req_name)
        ELSE IF ~using_python_syntax(raw) THEN parse_normal_request(raw, req_name)
        ELSE Raised("PermissionError")

\* the end of the parsing loop: the first exception, or the sub-requests that
\* were parsed
parsed_sub_requests(parsed) ==
    LET failed == {i \in 1..Len(parsed) : parsed[i].raised \notin {"no", "skip"}}
    IN  IF failed # {} THEN [raised |-> parsed[Least(failed)].raised, sub_requests |-> <<>>]
        ELSE [raised |-> "no", sub_requests |-> SelectSeq(parsed, LAMBDA p : p.raised = "no")]

\* the parsing loop of process_request over msg.split(";"), each part stripped
parse_sub_requests(registry, msg) ==
    parsed_sub_requests([i \in 1..Len(split(msg, ";")) |-> parse_sub_request(registry, strip(split(msg, ";")[i]))])

(* ------------------------------------------------------------------ *)
(* State                                                               *)
(* ------------------------------------------------------------------ *)

VARIABLES
    security,        \* CloudSocket.security: "None" or "RSA"
    packet_size,     \* CloudSocket.packet_size
    clients,         \* CloudSocket.clients: client id -> index into conns
    conns,           \* every CloudSocketConnection created so far, in creation order
    new_clients,     \* CloudSocket.new_clients (the entries, by index)
    key_parts,       \* CloudSocket.key_parts, in insertion order
    last_timestamp,  \* CloudSocket.last_timestamp
    accepted,        \* CloudSocket.accepted (threading.Event)
    received_any,    \* CloudSocket.received_any
    any_update,      \* CloudSocket.any_update
    accepting,       \* CloudSocket.accepting (Lock): its holder, 0 when free
    thread_running,  \* CloudConnection.thread_running
    is_turbowarp,    \* CloudConnection.is_turbowarp
    writes,          \* the cloud variable writes of the CloudConnection, in order
    wait_until,      \* CloudConnection.wait_until
    websocket_sent,  \* the "set" packets written to the WebSocket, in order, with their time
    websocket,       \* CloudConnection.websocket: "None", "open" or "closed"
    allow_no_certificate, \* CloudConnection.allow_no_certificate
    reconnect,       \* CloudConnection.reconnect
    requests,        \* RequestHandler.requests: name -> SpecificRequestHandler
    error_handler,   \* RequestHandler.error_handler: how the registered hook behaves, "None" without one
    current_client,  \* RequestHandler.current_client: an entry, 0 for None
    main_loop,       \* RequestHandler.start: where the loop is, and its locals
    workers,         \* the StoppableThreads dispatch_request has started
    trace,           \* what the handlers, the hook, the clients and the event bus have seen, in order
    events,          \* CloudConnection.events: event type -> the handlers registered with on, in order
    values,          \* CloudConnection.values: variable -> its last value
    receive_at,      \* where the thread of receive_data is: "prepare", "receive" or "dead"
    now,             \* time.time()
    pc,              \* per application thread: where it is in its call
    call,            \* per application thread: the locals and the result of its call
    stop_result,     \* how RequestHandler.stop was called and how it ended
    last,            \* the event on_packet handled last, and how the handler ended
    packets,         \* the number of events handled so far
    calls,           \* the number of calls made so far
    history,         \* per entry: the bodies and messages received and returned
    accepted_salt,   \* the largest salt of a packet that was accepted
    accept_log       \* the entries accept has popped, in order

reader_vars == <<security, clients, conns, new_clients, key_parts, last_timestamp, accepted, received_any, any_update>>

\* the write pacer of the CloudConnection
connect_vars == <<websocket, allow_no_certificate, reconnect>>

link_vars == <<wait_until, websocket_sent, connect_vars>>

\* the event bus and the reader of the CloudConnection
bus_vars == <<events, values, receive_at>>

\* the RequestHandler
handler_vars == <<requests, error_handler, current_client, main_loop, workers, trace>>

cloud_vars == <<packet_size, thread_running, is_turbowarp, writes, link_vars, bus_vars, handler_vars>>

thread_vars == <<accepting, pc, call, calls, accept_log, stop_result>>

ghost_vars == <<last, packets, history, accepted_salt>>

vars == <<reader_vars, cloud_vars, thread_vars, now, ghost_vars>>

\* the state on_packet reads and writes
Sock ==
    [security |-> security, clients |-> clients, conns |-> conns, new_clients |-> new_clients,
     key_parts |-> key_parts, last_timestamp |-> last_timestamp, accepted |-> accepted,
     received_any |-> received_any, any_update |-> any_update, branch |-> "none", outcome |-> "none"]

(* ------------------------------------------------------------------ *)
(* Bounds and inputs                                                   *)
(* ------------------------------------------------------------------ *)

\* the events the reader handles in one run
MaxPackets == 5

\* the key fragments the reader handles in one run of SpecKeys
MaxFragments == 102

\* the key fragments repeated in one run of SpecKeys
MaxDuplicates == 2

\* the connect frames the reader handles in one run with application threads
MaxConnects == 2

\* the events the reader handles in one run with receiving threads
MaxMessages == 3

\* the events the reader handles in one run with sending threads
MaxHandshake == 4

\* the calls the application threads make in one run
MaxCalls == 3

\* the ticks of the clock in one run
MaxTicks == 1

\* time.time() when the CloudSocket is constructed
T0 == 10

\* the application threads
Threads == {1, 2}

\* None, for a timeout, a deadline or a key
None == -1

\* packet_size="AUTO"
AUTO == 0

\* the timeouts the application passes, in ticks
Timeouts == {None, 0, 1}

ClientA == <<"0", "0", "0", "0", "1">>

ClientB == <<"0", "0", "0", "0", "2">>

ClientC == <<"0", "0", "0", "0", "3">>

\* a FROM_CLIENT value: [-][type][body].[client_id][nonce][seq]
Frame(negative, type, body, client) ==
    (IF negative THEN <<"-">> ELSE <<>>) \o <<type>> \o body \o <<".">> \o client \o <<"4", "2", "7", "0">>

\* s.zfill(width)
zfill(s, width) == [i \in 1..(width - Len(s)) |-> "0"] \o s

\* the session key a client binds to its salt: its decimal form ends with the salt
SessionKey(salt) == DigitsValue(<<"5">> \o IntToStr(salt))

FragmentId(n) == zfill(IntToStr(n), KEY_PART_ID_DIGITS)

\* the RSA-encrypted session key, cut into two fragments
FragmentData(salt, n) ==
    LET c == IntToStr(rsa_encrypt(SessionKey(salt)))
    IN  IF n = 1 THEN Take(c, 2) ELSE Drop(c, 2)

KeyFragmentFrame(salt, n) == Frame(FALSE, "0", FragmentId(n) \o FragmentData(salt, n), ClientC)

SafeConnectFrame(salt, refs, client) ==
    Frame(FALSE, "1", EncodeChars(SAFE_CONNECT) \o refs \o zfill(IntToStr(salt), SALT_DIGITS), client)

SecureFrame(negative, key, text, salt, client) ==
    Frame(negative, "1", EncodeChars(encrypt(key, text, salt, 1234)) \o zfill(IntToStr(salt), SALT_DIGITS), client)

ConnectFrame(negative, client) == Frame(negative, "1", EncodeChars(CONNECT), client)

TextFrame(negative, text, client) == Frame(negative, "1", EncodeChars(text), client)

Event(name, value, user) == [name |-> name, value |-> value, user |-> user]

\* the texts clients send in the model
ModelTexts == {<<"a">>, <<"H", "i">>}

\* insecure traffic: connects, continuation and terminal parts, a part of odd
\* length, a part from a client that never connected, an event of another variable
FrameEvents ==
    { Event(FROM_CLIENT, ConnectFrame(FALSE, ClientA), "user"),
      Event(FROM_CLIENT, ConnectFrame(TRUE, ClientA), "raise"),
      Event(FROM_CLIENT, TextFrame(TRUE, <<"a">>, ClientA), "user"),
      Event(FROM_CLIENT, TextFrame(FALSE, <<"a">>, ClientA), "user"),
      Event(FROM_CLIENT, TextFrame(FALSE, <<"H", "i">>, ClientA), "user"),
      Event(FROM_CLIENT, Frame(TRUE, "2", <<"9", "0", "0">>, ClientA), "user"),
      Event(FROM_CLIENT, TextFrame(TRUE, <<"a">>, ClientB), "None"),
      Event("TO_CLIENT_1", TextFrame(FALSE, <<"a">>, ClientA), "user") }

\* secure traffic: the key fragments, the handshake (fresh and stale), and
\* message parts with fresh, repeated and far-future salts
SecureEvents ==
    { Event(FROM_CLIENT, KeyFragmentFrame(T0 + 1, 1), "user"),
      Event(FROM_CLIENT, KeyFragmentFrame(T0 + 1, 2), "user"),
      Event(FROM_CLIENT, SafeConnectFrame(T0 + 1, FragmentId(1) \o FragmentId(2), ClientC), "user"),
      Event(FROM_CLIENT, SafeConnectFrame(T0, FragmentId(1) \o FragmentId(2), ClientC), "user"),
      Event(FROM_CLIENT, SecureFrame(TRUE, SessionKey(T0 + 1), <<"x">>, T0 + 2, ClientC), "user"),
      Event(FROM_CLIENT, SecureFrame(FALSE, SessionKey(T0 + 1), <<"y">>, T0 + 2, ClientC), "user"),
      Event(FROM_CLIENT, SecureFrame(FALSE, SessionKey(T0 + 1), <<"z">>, T0 + 3, ClientC), "user"),
      Event(FROM_CLIENT, SecureFrame(FALSE, SessionKey(T0 + 1), <<"z">>, T0 + 1 + SALT_WINDOW, ClientC), "user") }

\* _safe_connect: frames that bind the key of the two fragments to its salt,
\* that carry another salt, that refer to a fragment never sent, that refer
\* to the fragments in the wrong order and that refer to none
SafeConnectEvents ==
    { Event(FROM_CLIENT, KeyFragmentFrame(T0 + 1, 1), "user"),
      Event(FROM_CLIENT, KeyFragmentFrame(T0 + 1, 2), "user"),
      Event(FROM_CLIENT, SafeConnectFrame(T0 + 1, FragmentId(1) \o FragmentId(2), ClientC), "user"),
      Event(FROM_CLIENT, SafeConnectFrame(T0 + 2, FragmentId(1) \o FragmentId(2), ClientC), "user"),
      Event(FROM_CLIENT, SafeConnectFrame(T0 + 1, FragmentId(1) \o FragmentId(3), ClientC), "user"),
      Event(FROM_CLIENT, SafeConnectFrame(T0 + 1, FragmentId(2) \o FragmentId(1), ClientC), "user"),
      Event(FROM_CLIENT, SafeConnectFrame(T0 + 1, <<>>, ClientA), "user") }

\* message parts of an insecure and of a secure client on one socket
PartsEvents ==
    { Event(FROM_CLIENT, ConnectFrame(FALSE, ClientA), "user"),
      Event(FROM_CLIENT, TextFrame(TRUE, <<"a">>, ClientA), "user"),
      Event(FROM_CLIENT, TextFrame(FALSE, <<"H", "i">>, ClientA), "user"),
      Event(FROM_CLIENT, KeyFragmentFrame(T0 + 1, 1), "user"),
      Event(FROM_CLIENT, KeyFragmentFrame(T0 + 1, 2), "user"),
      Event(FROM_CLIENT, SafeConnectFrame(T0 + 1, FragmentId(1) \o FragmentId(2), ClientC), "user"),
      Event(FROM_CLIENT, SecureFrame(TRUE, SessionKey(T0 + 1), <<"x">>, T0 + 2, ClientC), "user"),
      Event(FROM_CLIENT, SecureFrame(FALSE, SessionKey(T0 + 1), <<"z">>, T0 + 3, ClientC), "user") }

\* two insecure clients and a secure client on one socket, each with a
\* connect frame and message parts
InterleavedEvents ==
    { Event(FROM_CLIENT, ConnectFrame(FALSE, ClientA), "user"),
      Event(FROM_CLIENT, TextFrame(TRUE, <<"a">>, ClientA), "user"),
      Event(FROM_CLIENT, TextFrame(FALSE, <<"H", "i">>, ClientA), "user"),
      Event(FROM_CLIENT, ConnectFrame(FALSE, ClientB), "user"),
      Event(FROM_CLIENT, TextFrame(TRUE, <<"a">>, ClientB), "None"),
      Event(FROM_CLIENT, TextFrame(FALSE, <<"a">>, ClientB), "user"),
      Event(FROM_CLIENT, KeyFragmentFrame(T0 + 1, 1), "user"),
      Event(FROM_CLIENT, KeyFragmentFrame(T0 + 1, 2), "user"),
      Event(FROM_CLIENT, SafeConnectFrame(T0 + 1, FragmentId(1) \o FragmentId(2), ClientC), "user"),
      Event(FROM_CLIENT, SecureFrame(FALSE, SessionKey(T0 + 1), <<"z">>, T0 + 3, ClientC), "user") }

\* a client that has connected with a _safe_connect: frame and then sends
\* plain frames under the same id: a connect frame and a message part
DowngradeEvents ==
    { Event(FROM_CLIENT, KeyFragmentFrame(T0 + 1, 1), "user"),
      Event(FROM_CLIENT, KeyFragmentFrame(T0 + 1, 2), "user"),
      Event(FROM_CLIENT, SafeConnectFrame(T0 + 1, FragmentId(1) \o FragmentId(2), ClientC), "user"),
      Event(FROM_CLIENT, SecureFrame(FALSE, SessionKey(T0 + 1), <<"z">>, T0 + 3, ClientC), "user"),
      Event(FROM_CLIENT, ConnectFrame(FALSE, ClientC), "user"),
      Event(FROM_CLIENT, TextFrame(FALSE, <<"a">>, ClientC), "user") }

\* packets that are refused after their salt was read: a _safe_connect:
\* frame that refers to a fragment never sent, one whose key does not end
\* with its salt, and a message part encrypted with another key; and valid
\* packets with smaller salts
WatermarkEvents ==
    { Event(FROM_CLIENT, KeyFragmentFrame(T0 + 1, 1), "user"),
      Event(FROM_CLIENT, KeyFragmentFrame(T0 + 1, 2), "user"),
      Event(FROM_CLIENT, SafeConnectFrame(T0 + 1, FragmentId(1) \o FragmentId(2), ClientC), "user"),
      Event(FROM_CLIENT, SafeConnectFrame(T0 + 2, FragmentId(1) \o FragmentId(3), ClientC), "user"),
      Event(FROM_CLIENT, SafeConnectFrame(T0 + 2, FragmentId(1) \o FragmentId(2), ClientC), "user"),
      Event(FROM_CLIENT, SecureFrame(FALSE, SessionKey(T0 + 2), <<"x">>, T0 + 5, ClientC), "user"),
      Event(FROM_CLIENT, SecureFrame(FALSE, SessionKey(T0 + 1), <<"z">>, T0 + 3, ClientC), "user") }

\* the n-th key fragment of a long run of fragments
FragmentEvent(n) == Event(FROM_CLIENT, Frame(FALSE, "0", FragmentId(n) \o <<"7">>, ClientB), "user")

\* the n-th key fragment once more, with another part under the same id
RepeatedFragmentEvent(n) == Event(FROM_CLIENT, Frame(FALSE, "0", FragmentId(n) \o <<"8">>, ClientB), "user")

\* connect frames of two clients
ConnectEvents ==
    { Event(FROM_CLIENT, ConnectFrame(FALSE, ClientA), "user"),
      Event(FROM_CLIENT, ConnectFrame(FALSE, ClientB), "None") }

\* one insecure client that connects, also anew, and sends messages
RecvEvents ==
    { Event(FROM_CLIENT, ConnectFrame(FALSE, ClientA), "user"),
      Event(FROM_CLIENT, TextFrame(FALSE, <<"a">>, ClientA), "user"),
      Event(FROM_CLIENT, TextFrame(FALSE, <<"H", "i">>, ClientA), "user") }

\* one insecure client that connects and sends a message
StopEvents ==
    { Event(FROM_CLIENT, ConnectFrame(FALSE, ClientA), "user"),
      Event(FROM_CLIENT, TextFrame(FALSE, <<"a">>, ClientA), "user") }

\* an insecure and a secure client that connect
SendEvents ==
    { Event(FROM_CLIENT, ConnectFrame(FALSE, ClientA), "user"),
      Event(FROM_CLIENT, KeyFragmentFrame(T0 + 1, 1), "user"),
      Event(FROM_CLIENT, KeyFragmentFrame(T0 + 1, 2), "user"),
      Event(FROM_CLIENT, SafeConnectFrame(T0 + 1, FragmentId(1) \o FragmentId(2), ClientC), "user") }

\* one insecure client that connects and sends requests: three sub-requests,
\* a handler that raises ErrorMessage, a call form that is not allowed, a
\* handler that raises, and handlers registered for a worker
RequestEvents ==
    { Event(FROM_CLIENT, ConnectFrame(FALSE, ClientA), "user"),
      Event(FROM_CLIENT, TextFrame(FALSE, <<"a", ";", "b", ";", "c">>, ClientA), "user"),
      Event(FROM_CLIENT, TextFrame(FALSE, <<"e">>, ClientA), "user"),
      Event(FROM_CLIENT, TextFrame(FALSE, <<"n", "(", ")">>, ClientA), "user"),
      Event(FROM_CLIENT, TextFrame(FALSE, <<"x">>, ClientA), "user"),
      Event(FROM_CLIENT, TextFrame(FALSE, <<"x", ";", "a">>, ClientA), "user"),
      Event(FROM_CLIENT, TextFrame(FALSE, <<"u">>, ClientA), "user"),
      Event(FROM_CLIENT, TextFrame(FALSE, <<"w", ";", "a">>, ClientA), "user") }

\* the requests two clients send to a RequestHandler whose answers all fail:
\* an unknown name, arguments that do not parse, a handler that raises, a
\* handler that raises ErrorMessage, and a handler that returns
LoopMessages ==
    { [client |-> ClientA, text |-> <<"z">>],
      [client |-> ClientA, text |-> <<"a", " ", "b">>],
      [client |-> ClientA, text |-> <<"x">>],
      [client |-> ClientB, text |-> <<"e">>],
      [client |-> ClientB, text |-> <<"a">>] }

\* messages of two sub-requests whose second one names a request that is not
\* registered, uses the call form for a handler that does not allow it, or
\* has an argument parse_normal_request refuses; and one without fault
FaultyMessages ==
    { [client |-> ClientA, text |-> <<"a", ";", "z">>],
      [client |-> ClientA, text |-> <<"a", ";", "n", "(", ")">>],
      [client |-> ClientA, text |-> <<"a", ";", "a", " ", "b">>],
      [client |-> ClientA, text |-> <<"a", ";", "b">>] }

\* a request for a handler that fails in a worker, and requests of another
\* client for handlers that run in the thread of start
AttributionMessages ==
    { [client |-> ClientA, text |-> <<"u">>],
      [client |-> ClientB, text |-> <<"a">>],
      [client |-> ClientB, text |-> <<"x">>] }

LoopEvent(m) == Event(FROM_CLIENT, TextFrame(FALSE, m.text, m.client), "user")

LoopConnect(client) == Event(FROM_CLIENT, ConnectFrame(FALSE, client), "user")

LoopEvents == {LoopEvent(m) : m \in LoopMessages} \cup {LoopConnect(client) : client \in {ClientA, ClientB}}

AllEvents ==
    FrameEvents \cup SecureEvents \cup PartsEvents \cup ConnectEvents \cup RecvEvents \cup StopEvents \cup SendEvents
        \cup RequestEvents \cup LoopEvents \cup SafeConnectEvents \cup DowngradeEvents
        \cup WatermarkEvents \cup InterleavedEvents
        \cup {LoopEvent(m) : m \in FaultyMessages \cup AttributionMessages}
        \cup {FragmentEvent(n) : n \in 0..(MaxFragments + 1)}
        \cup {RepeatedFragmentEvent(n) : n \in 0..(MaxFragments + 1)}

\* packet(value), tabulated for the values of the model
PacketOf == [value \in {e.value : e \in AllEvents} |-> packet(value)]

(* ------------------------------------------------------------------ *)
(* The reader                                                          *)
(* ------------------------------------------------------------------ *)

\* whether on_packet takes p for a message part of the insecure entry of p.client
IsInsecurePart(name, p) ==
    /\ name = FROM_CLIENT /\ p.typed /\ p.msg_type # 0 /\ p.dotted /\ ~p.is_connect
    /\ p.client \in DOMAIN clients
    /\ ~conns[clients[p.client]].secure

\* the salt a packet carries when on_packet takes it for a secure message part
\* or for a _safe_connect: frame
CarriedSalt(p) == DigitsValue(TakeLast(p.msg_data, SALT_DIGITS))

NoHistory == [pending |-> <<>>, completed |-> <<>>, enqueued |-> <<>>, returned |-> <<>>]

\* the history of entry c after the reader has taken the socket from its
\* present state to R by handling p
Recorded(R, name, p, c) ==
    LET part == IsInsecurePart(name, p) /\ c = clients[p.client]
        h == history[c]
    IN  [pending |-> IF part THEN (IF p.minus THEN Append(h.pending, p.msg_data) ELSE <<>>) ELSE h.pending,
         completed |-> IF part /\ ~p.minus THEN Append(h.completed, Append(h.pending, p.msg_data)) ELSE h.completed,
         enqueued |-> IF Len(R.conns[c].new_msgs) > Len(conns[c].new_msgs)
                      THEN Append(h.enqueued, R.conns[c].new_msgs[Len(R.conns[c].new_msgs)])
                      ELSE h.enqueued,
         returned |-> h.returned]

\* the reader thread hands one "set" event to on_packet
Deliver(e) ==
    LET p == PacketOf[e.value]
    IN  \E R \in {on_packet(Sock, e.name, p, now, e.user)} :
            /\ thread_running
            /\ security' = R.security
            /\ clients' = R.clients
            /\ conns' = R.conns
            /\ new_clients' = R.new_clients
            /\ key_parts' = R.key_parts
            /\ last_timestamp' = R.last_timestamp
            /\ accepted' = R.accepted
            /\ received_any' = R.received_any
            /\ any_update' = R.any_update
            /\ last' = [name |-> e.name, value |-> e.value, branch |-> R.branch, outcome |-> R.outcome]
            /\ packets' = packets + 1
            /\ history' = [c \in 1..Len(R.conns) |-> IF c > Len(conns) THEN NoHistory ELSE Recorded(R, e.name, p, c)]
            /\ accepted_salt' = IF R.branch \in {"secure", "safe_connect"} /\ R.conns # conns
                                THEN Max(accepted_salt, CarriedSalt(p)) ELSE accepted_salt
            /\ UNCHANGED <<cloud_vars, thread_vars, now>>

\* time passes
Tick ==
    /\ now < T0 + MaxTicks
    /\ now' = now + 1
    /\ UNCHANGED <<reader_vars, cloud_vars, thread_vars, ghost_vars>>

(* ------------------------------------------------------------------ *)
(* Application threads                                                 *)
(* ------------------------------------------------------------------ *)

NoCall ==
    [op |-> "none", id |-> 0, timeout |-> None, started |-> 0, endtime |-> None, entry |-> 0,
     client_id |-> <<>>, data |-> <<>>, packets |-> <<>>, idx |-> 0, var |-> 1,
     result |-> "none", value |-> <<>>]

\* thread t starts a call
Begins(t, op, position, timeout, endtime, entry) ==
    /\ pc[t] = "idle"
    /\ pc' = [pc EXCEPT ![t] = position]
    /\ call' = [call EXCEPT ![t] = [NoCall EXCEPT !.op = op, !.timeout = timeout, !.started = now,
                                                  !.endtime = endtime, !.entry = entry]]
    /\ calls' = calls + 1

\* the call of thread t goes on at position
Goes(t, position) ==
    /\ pc' = [pc EXCEPT ![t] = position]
    /\ UNCHANGED <<call, calls>>

\* the call of thread t ends: result is "return" or the exception it raises
Ends(t, result, value) ==
    /\ pc' = [pc EXCEPT ![t] = "idle"]
    /\ call' = [call EXCEPT ![t] = [NoCall EXCEPT !.op = call[t].op, !.id = call[t].id, !.entry = call[t].entry,
                                                  !.data = call[t].data, !.packets = call[t].packets,
                                                  !.result = result, !.value = value]]
    /\ UNCHANGED calls

\* Lock.acquire(timeout) cannot succeed any more: the lock is held and a
\* timeout that is not None has run out
AcquireTimesOut(t, holder) ==
    holder # 0 /\ call[t].timeout # None /\ now >= call[t].started + call[t].timeout

\* the deadline of the call of t has not passed: endtime is None or time.time() < endtime
BeforeDeadline(t) == call[t].endtime = None \/ now < call[t].endtime

\* accept: endtime = (time.time() + timeout) if timeout is not None else None
accept_call(t, timeout) ==
    /\ Begins(t, "accept", "accept_acquire", timeout, IF timeout = None THEN None ELSE now + timeout, 0)
    /\ UNCHANGED <<reader_vars, cloud_vars, accepting, accept_log, stop_result, now, ghost_vars>>

\* accept: result = self.accepting.acquire(timeout=...); TimeoutError when it fails
accept_acquire(t) ==
    /\ pc[t] = "accept_acquire"
    /\ \/ /\ accepting = 0
          /\ accepting' = t
          /\ Goes(t, "accept_check")
       \/ /\ AcquireTimesOut(t, accepting)
          /\ Ends(t, "TimeoutError", <<>>)
          /\ UNCHANGED accepting
    /\ UNCHANGED <<reader_vars, cloud_vars, accept_log, stop_result, now, ghost_vars>>

\* accept: the test of the while loop
accept_check(t) ==
    /\ pc[t] = "accept_check"
    /\ IF new_clients = <<>> /\ BeforeDeadline(t) THEN Goes(t, "accept_clear") ELSE Goes(t, "accept_pop")
    /\ UNCHANGED <<reader_vars, cloud_vars, accepting, accept_log, stop_result, now, ghost_vars>>

\* accept: self.accepted.clear()
accept_clear(t) ==
    /\ pc[t] = "accept_clear"
    /\ accepted' = FALSE
    /\ Goes(t, "accept_wait")
    /\ UNCHANGED <<security, clients, conns, new_clients, key_parts, last_timestamp, received_any, any_update>>
    /\ UNCHANGED <<cloud_vars, accepting, accept_log, stop_result, now, ghost_vars>>

\* accept: self.accepted.wait(endtime and endtime - time.time()) returns
accept_wait(t) ==
    /\ pc[t] = "accept_wait"
    /\ accepted \/ ~BeforeDeadline(t)
    /\ Goes(t, "accept_check")
    /\ UNCHANGED <<reader_vars, cloud_vars, accepting, accept_log, stop_result, now, ghost_vars>>

\* an accept that pops the newest entry
accept_pop_newest(t) ==
    /\ pc[t] = "accept_pop"
    /\ IF new_clients # <<>>
       THEN /\ new_clients' = DropLast(new_clients, 1)
            /\ accept_log' = Append(accept_log, new_clients[Len(new_clients)])
            /\ Ends(t, "return", <<new_clients[Len(new_clients)]>>)
       ELSE /\ Ends(t, "TimeoutError", <<>>)
            /\ UNCHANGED <<new_clients, accept_log>>
    /\ accepting' = 0
    /\ UNCHANGED <<security, clients, conns, key_parts, last_timestamp, accepted, received_any, any_update>>
    /\ UNCHANGED <<cloud_vars, stop_result, now, ghost_vars>>

\* accept: self.new_clients.pop(0), or TimeoutError for the IndexError; the
\* finally clause releases the lock
accept_pop(t) ==
    /\ pc[t] = "accept_pop"
    /\ IF new_clients # <<>>
       THEN /\ new_clients' = Tail(new_clients)
            /\ accept_log' = Append(accept_log, Head(new_clients))
            /\ Ends(t, "return", <<Head(new_clients)>>)
       ELSE /\ Ends(t, "TimeoutError", <<>>)
            /\ UNCHANGED <<new_clients, accept_log>>
    /\ accepting' = 0
    /\ UNCHANGED <<security, clients, conns, key_parts, last_timestamp, accepted, received_any, any_update>>
    /\ UNCHANGED <<cloud_vars, stop_result, now, ghost_vars>>

\* recv_from_client: client = self.clients[client_id];
\* endtime = timeout and (time.time() + timeout)
recv_call(t, client_id, timeout) ==
    /\ IF client_id \in DOMAIN clients
       THEN Begins(t, "recv", "recv_acquire", timeout,
                   IF timeout = None THEN None ELSE IF timeout = 0 THEN 0 ELSE now + timeout, clients[client_id])
       ELSE /\ pc[t] = "idle"
            /\ call' = [call EXCEPT ![t] = [NoCall EXCEPT !.op = "recv", !.result = "KeyError"]]
            /\ calls' = calls + 1
            /\ UNCHANGED pc
    /\ UNCHANGED <<reader_vars, cloud_vars, accepting, accept_log, stop_result, now, ghost_vars>>

\* recv_from_client: result = client.receiving.acquire(timeout=...)
recv_acquire(t) ==
    /\ pc[t] = "recv_acquire"
    /\ \/ /\ conns[call[t].entry].receiving = 0
          /\ conns' = [conns EXCEPT ![call[t].entry].receiving = t]
          /\ Goes(t, "recv_check")
       \/ /\ AcquireTimesOut(t, conns[call[t].entry].receiving)
          /\ Ends(t, "TimeoutError", <<>>)
          /\ UNCHANGED conns
    /\ UNCHANGED <<security, clients, new_clients, key_parts, last_timestamp, accepted, received_any, any_update>>
    /\ UNCHANGED <<cloud_vars, accepting, accept_log, stop_result, now, ghost_vars>>

\* recv_from_client: the test of the while loop
recv_check(t) ==
    /\ pc[t] = "recv_check"
    /\ IF conns[call[t].entry].new_msgs = <<>> /\ BeforeDeadline(t)
       THEN Goes(t, "recv_wait") ELSE Goes(t, "recv_pop")
    /\ UNCHANGED <<reader_vars, cloud_vars, accepting, accept_log, stop_result, now, ghost_vars>>

\* recv_from_client: client.received.wait(endtime and endtime - time.time()) returns
recv_wait(t) ==
    /\ pc[t] = "recv_wait"
    /\ conns[call[t].entry].received \/ ~BeforeDeadline(t)
    /\ Goes(t, "recv_check")
    /\ UNCHANGED <<reader_vars, cloud_vars, accepting, accept_log, stop_result, now, ghost_vars>>

\* a recv_from_client that returns the first message and leaves it on the queue
recv_pop_without_removal(t) ==
    LET c == call[t].entry
    IN  /\ pc[t] = "recv_pop"
        /\ IF conns[c].new_msgs # <<>>
           THEN /\ conns' = [conns EXCEPT ![c].receiving = 0]
                /\ history' = [history EXCEPT ![c].returned = Append(@, Head(conns[c].new_msgs))]
                /\ Ends(t, "return", Head(conns[c].new_msgs))
           ELSE /\ conns' = [conns EXCEPT ![c].receiving = 0]
                /\ Ends(t, "TimeoutError", <<>>)
                /\ UNCHANGED history
        /\ UNCHANGED <<security, clients, new_clients, key_parts, last_timestamp, accepted, received_any, any_update>>
        /\ UNCHANGED <<cloud_vars, accepting, accept_log, stop_result, now, last, packets, accepted_salt>>

\* recv_from_client: client.new_msgs.pop(0).message, or TimeoutError for the
\* IndexError; the finally clause releases the lock
recv_pop(t) ==
    LET c == call[t].entry
    IN  /\ pc[t] = "recv_pop"
        /\ IF conns[c].new_msgs # <<>>
           THEN /\ conns' = [conns EXCEPT ![c].new_msgs = Tail(@), ![c].receiving = 0]
                /\ history' = [history EXCEPT ![c].returned = Append(@, Head(conns[c].new_msgs))]
                /\ Ends(t, "return", Head(conns[c].new_msgs))
           ELSE /\ conns' = [conns EXCEPT ![c].receiving = 0]
                /\ Ends(t, "TimeoutError", <<>>)
                /\ UNCHANGED history
        /\ UNCHANGED <<security, clients, new_clients, key_parts, last_timestamp, accepted, received_any, any_update>>
        /\ UNCHANGED <<cloud_vars, accepting, accept_log, stop_result, now, last, packets, accepted_salt>>

\* CloudSocket.get_packet_size
get_packet_size(size, turbowarp) ==
    IF size # AUTO THEN size ELSE IF turbowarp THEN TURBOWARP_PACKET_SIZE ELSE SCRATCH_PACKET_SIZE

\* the str handed to int(): f"{sign}{body}.{client_id}{rand:03}{packet_idx}"
write_value(negative, body, client_id, rand, packet_idx) ==
    (IF negative THEN <<"-">> ELSE <<>>) \o body \o <<".">> \o client_id \o rand \o IntToStr(packet_idx)

\* the values of random.randrange(1000), as f"{...:03}"
Nonces == {<<"4", "2", "7">>}

\* the values of the seed SymmetricEncryption.encrypt draws
Seeds == {1234}

\* the data the application sends
SendData == {<<"a">>, <<"H", "i">>}

\* send_to_client: client = self.clients[client_id]
send_call(t, data, client_id) ==
    /\ pc[t] = "idle"
    /\ calls' = calls + 1
    /\ IF client_id \in DOMAIN clients
       THEN /\ pc' = [pc EXCEPT ![t] = "send_acquire"]
            /\ call' = [call EXCEPT ![t] = [NoCall EXCEPT !.op = "send", !.id = calls + 1, !.started = now,
                                                          !.entry = clients[client_id],
                                                          !.client_id = client_id, !.data = data]]
       ELSE /\ call' = [call EXCEPT ![t] = [NoCall EXCEPT !.op = "send", !.id = calls + 1, !.result = "KeyError"]]
            /\ UNCHANGED pc
    /\ UNCHANGED <<reader_vars, cloud_vars, accepting, accept_log, stop_result, now, ghost_vars>>

\* send_to_client: with client.sending, then the packets of the message are
\* cut: of the encoded data for an insecure client, of the data for a secure one
send_acquire(t) ==
    LET c == call[t].entry
        size == get_packet_size(packet_size, is_turbowarp)
        unit == (size \div 2) - CONNECT_PREFIX_DIGITS
    IN  /\ pc[t] = "send_acquire"
        /\ conns[c].sending = 0
        /\ IF conns[c].secure /\ unit < 1
           THEN /\ Ends(t, "ValueError", <<>>)
                /\ UNCHANGED conns
           ELSE /\ conns' = [conns EXCEPT ![c].sending = t]
                /\ pc' = [pc EXCEPT ![t] = "send_packet"]
                /\ call' = [call EXCEPT ![t].packets = IF conns[c].secure THEN batched(call[t].data, unit)
                                                       ELSE batched(_encode(call[t].data), size)]
                /\ UNCHANGED calls
        /\ UNCHANGED <<security, clients, new_clients, key_parts, last_timestamp, accepted, received_any, any_update>>
        /\ UNCHANGED <<cloud_vars, accepting, accept_log, stop_result, now, ghost_vars>>

\* send_to_client / secure_send_to_client: the next client.set_var(name, int(...))
\* of the message; an exception leaves the with block, which releases the lock
send_packet(t) ==
    LET c == call[t].entry
        i == call[t].idx
        is_last == i = Len(call[t].packets) - 1
    IN  /\ pc[t] = "send_packet"
        /\ IF call[t].packets = <<>>
           THEN /\ Ends(t, "IndexError", <<>>)
                /\ conns' = [conns EXCEPT ![c].sending = 0]
                /\ UNCHANGED writes
           ELSE \E rand \in Nonces, seed \in Seeds :
                  LET body == IF conns[c].secure
                              THEN _encode(encrypt(conns[c].key, call[t].packets[i + 1], now, seed))
                                       \o zfill(IntToStr(now), SALT_DIGITS)
                              ELSE call[t].packets[i + 1]
                      text == write_value(~is_last, body, conns[c].client_id, rand, i)
                  IN  IF ~IntParses(text)
                      THEN /\ Ends(t, "ValueError", <<>>)
                           /\ conns' = [conns EXCEPT ![c].sending = 0]
                           /\ UNCHANGED writes
                      ELSE IF is_last
                      THEN \E r \in 1..4 :
                              /\ writes' = Append(writes, [call |-> call[t].id, entry |-> c, var |-> r, value |-> text])
                              /\ Ends(t, "return", <<>>)
                              /\ conns' = [conns EXCEPT ![c].sending = 0]
                      ELSE /\ writes' = Append(writes, [call |-> call[t].id, entry |-> c, var |-> call[t].var, value |-> text])
                           /\ call' = [call EXCEPT ![t].idx = i + 1, ![t].var = (call[t].var % 4) + 1]
                           /\ UNCHANGED <<pc, calls, conns>>
        /\ UNCHANGED <<security, clients, new_clients, key_parts, last_timestamp, accepted, received_any, any_update>>
        /\ UNCHANGED <<packet_size, thread_running, is_turbowarp, accepting, accept_log, stop_result, now, ghost_vars>>
        /\ UNCHANGED <<link_vars, bus_vars, handler_vars>>

(* ------------------------------------------------------------------ *)
(* Stopping                                                            *)
(* ------------------------------------------------------------------ *)

\* the keyword parameters of CloudConnection.stop_thread(self)
stop_thread_parameters == {}

\* a call of CloudConnection.stop_thread with the given keyword arguments: a
\* keyword the signature lacks raises TypeError before the body runs
stop_thread_call(keywords) ==
    IF keywords \subseteq stop_thread_parameters
    THEN [raised |-> FALSE, thread_running |-> FALSE]
    ELSE [raised |-> TRUE, thread_running |-> thread_running]

\* CloudSocket.stop: self.cloud.stop_thread(cascade_stop=cascade_stop)
CloudSocket_stop(cascade_stop) == stop_thread_call({"cascade_stop"})

\* RequestHandler.stop, called from a thread of its own
RequestHandler_stop(cascade_stop) ==
    LET stopped == IF cascade_stop THEN CloudSocket_stop(cascade_stop)
                   ELSE [raised |-> FALSE, thread_running |-> thread_running]
    IN  /\ stop_result.result = "none"
        /\ thread_running' = stopped.thread_running
        /\ any_update' = IF cascade_stop /\ ~stopped.raised THEN TRUE ELSE any_update
        /\ stop_result' = [cascade_stop |-> cascade_stop, result |-> IF stopped.raised THEN "TypeError" ELSE "return"]
        /\ UNCHANGED <<security, clients, conns, new_clients, key_parts, last_timestamp, accepted, received_any>>
        /\ UNCHANGED <<packet_size, is_turbowarp, writes, accepting, pc, call, calls, accept_log, now, ghost_vars>>
        /\ UNCHANGED <<link_vars, bus_vars, handler_vars>>

\* CloudConnection.stop_thread(), called by the application
stop_thread ==
    /\ thread_running
    /\ thread_running' = stop_thread_call({}).thread_running
    /\ UNCHANGED <<reader_vars, packet_size, is_turbowarp, writes, thread_vars, now, ghost_vars>>
    /\ UNCHANGED <<link_vars, bus_vars, handler_vars>>

(* ------------------------------------------------------------------ *)
(* Specifications                                                      *)
(* ------------------------------------------------------------------ *)

\* the state of a CloudSocket, without the WebSocket and its reader
InitSocketState ==
    /\ clients = <<>>
    /\ conns = <<>>
    /\ new_clients = <<>>
    /\ key_parts = <<>>
    /\ last_timestamp = T0
    /\ accepted = FALSE
    /\ received_any = FALSE
    /\ any_update = FALSE
    /\ accepting = 0
    /\ thread_running = TRUE
    /\ is_turbowarp = FALSE
    /\ writes = <<>>
    /\ wait_until = 0
    /\ websocket_sent = <<>>
    /\ events = <<>>
    /\ values = <<>>
    /\ now = T0
    /\ pc = [t \in Threads |-> "idle"]
    /\ call = [t \in Threads |-> NoCall]
    /\ stop_result = [cascade_stop |-> FALSE, result |-> "none"]
    /\ last = [name |-> "none", value |-> <<>>, branch |-> "none", outcome |-> "none"]
    /\ packets = 0
    /\ calls = 0
    /\ history = <<>>
    /\ accepted_salt = 0
    /\ accept_log = <<>>

\* the CloudConnection is connected with the defaults of its constructor and
\* its reader has been started
InitSocket ==
    /\ InitSocketState
    /\ receive_at = "prepare"
    /\ websocket = "open"
    /\ allow_no_certificate = FALSE
    /\ reconnect = TRUE

\* no RequestHandler is built on the socket
NoRequestHandler ==
    /\ requests = <<>>
    /\ error_handler = "None"
    /\ current_client = 0
    /\ main_loop = [pc |-> "none", clients |-> <<>>, idx |-> 0]
    /\ workers = <<>>
    /\ trace = <<>>

InitInsecure ==
    /\ security = "None"
    /\ packet_size = AUTO
    /\ InitSocket
    /\ NoRequestHandler

InitSecure ==
    /\ security = "RSA"
    /\ packet_size = AUTO
    /\ InitSocket
    /\ NoRequestHandler

\* insecure framing
NextFrame == \E e \in FrameEvents : packets < MaxPackets /\ Deliver(e)

SpecFrame == InitInsecure /\ [][NextFrame]_vars

\* the secure handshake and secure message parts
NextSecure ==
    \/ \E e \in SecureEvents : packets < MaxPackets /\ Deliver(e)
    \/ Tick

SpecSecure == InitSecure /\ [][NextSecure]_vars

\* _safe_connect: frames on a socket with and without security
InitSafeConnect == InitSecure \/ InitInsecure

NextSafeConnect == \E e \in SafeConnectEvents : packets < MaxPackets /\ Deliver(e)

SpecSafeConnect == InitSafeConnect /\ [][NextSafeConnect]_vars

\* plain frames under the id of a secure client
NextDowngrade == \E e \in DowngradeEvents : packets < MaxPackets /\ Deliver(e)

SpecDowngrade == InitSecure /\ [][NextDowngrade]_vars

\* the packets of three clients in any order
NextInterleaved == \E e \in InterleavedEvents : packets < MaxPackets /\ Deliver(e)

SpecInterleaved == InitSecure /\ [][NextInterleaved]_vars

\* packets that are refused after their salt was read
NextWatermark == \E e \in WatermarkEvents : packets < MaxPackets /\ Deliver(e)

SpecWatermark == InitSecure /\ [][NextWatermark]_vars

\* message parts of an insecure and of a secure client
NextParts == \E e \in PartsEvents : packets < MaxPackets /\ Deliver(e)

SpecParts == InitSecure /\ [][NextParts]_vars

\* the id of the key fragment stored last, -1 when there is none
NewestFragment == IF key_parts = <<>> THEN -1 ELSE DigitsValue(key_parts[Len(key_parts)].id)

\* a long run of key fragments: fresh ids in sequence, and now and then the
\* id of the newest or the oldest stored fragment once more, with the same
\* part or with another one
NextKeys ==
    \/ /\ packets < MaxFragments
       /\ Deliver(FragmentEvent(NewestFragment + 1))
    \/ /\ packets < MaxFragments /\ packets - (NewestFragment + 1) < MaxDuplicates
       /\ key_parts # <<>>
       /\ \E n \in {NewestFragment, DigitsValue(key_parts[1].id)} :
              \E e \in {FragmentEvent(n), RepeatedFragmentEvent(n)} : Deliver(e)

SpecKeys == InitSecure /\ [][NextKeys]_vars

\* accept against the reader
NextAccept ==
    \/ \E e \in ConnectEvents : packets < MaxConnects /\ Deliver(e)
    \/ \E t \in Threads, timeout \in Timeouts : calls < MaxCalls /\ accept_call(t, timeout)
    \/ \E t \in Threads : accept_acquire(t)
    \/ \E t \in Threads : accept_check(t)
    \/ \E t \in Threads : accept_clear(t)
    \/ \E t \in Threads : accept_wait(t)
    \/ \E t \in Threads : accept_pop(t)
    \/ Tick

SpecAccept == InitInsecure /\ [][NextAccept]_vars

\* recv_from_client against the reader
NextRecv ==
    \/ \E e \in RecvEvents : packets < MaxMessages /\ Deliver(e)
    \/ \E t \in Threads, timeout \in Timeouts : calls < MaxCalls /\ recv_call(t, ClientA, timeout)
    \/ \E t \in Threads : recv_acquire(t)
    \/ \E t \in Threads : recv_check(t)
    \/ \E t \in Threads : recv_wait(t)
    \/ \E t \in Threads : recv_pop(t)
    \/ Tick

SpecRecv == InitInsecure /\ [][NextRecv]_vars

\* send_to_client against the reader, with two packet sizes
InitSend ==
    /\ security = "RSA"
    /\ packet_size \in {AUTO, 2}
    /\ InitSocket
    /\ NoRequestHandler

NextSend ==
    \/ \E e \in SendEvents : packets < MaxHandshake /\ Deliver(e)
    \/ \E t \in Threads, data \in SendData, client_id \in {ClientA, ClientC} :
           calls < MaxCalls /\ send_call(t, data, client_id)
    \/ \E t \in Threads : send_acquire(t)
    \/ \E t \in Threads : send_packet(t)

SpecSend == InitSend /\ [][NextSend]_vars

\* RequestHandler.stop against threads that wait in accept and in recv_from_client
NextStop ==
    \/ \E e \in StopEvents : packets < MaxConnects /\ Deliver(e)
    \/ \E t \in Threads : calls < MaxCalls /\ accept_call(t, None)
    \/ \E t \in Threads : accept_acquire(t)
    \/ \E t \in Threads : accept_check(t)
    \/ \E t \in Threads : accept_clear(t)
    \/ \E t \in Threads : accept_wait(t)
    \/ \E t \in Threads : accept_pop(t)
    \/ \E t \in Threads : calls < MaxCalls /\ recv_call(t, ClientA, None)
    \/ \E t \in Threads : recv_acquire(t)
    \/ \E t \in Threads : recv_check(t)
    \/ \E t \in Threads : recv_wait(t)
    \/ \E t \in Threads : recv_pop(t)
    \/ \E cascade_stop \in BOOLEAN : RequestHandler_stop(cascade_stop)
    \/ stop_thread

SpecStop == InitInsecure /\ [][NextStop]_vars

(* ------------------------------------------------------------------ *)
(* The RequestHandler (cloudrequests.requests)                         *)
(* ------------------------------------------------------------------ *)

\* the response of process_request to a request it cannot parse
SYNTAX_WRONG ==
    <<"T", "h", "e", " ", "c", "o", "m", "m", "a", "n", "d", " ", "s", "y", "n", "t", "a", "x", " ",
      "w", "a", "s", " ", "w", "r", "o", "n", "g", ".">>

\* the response of process_request when the dispatch of a sub-request raises
WENT_WRONG ==
    <<"S", "o", "m", "e", "t", "h", "i", "n", "g", " ", "w", "e", "n", "t", " ", "w", "r", "o", "n", "g", ".">>

\* the text of the ErrorMessage a handler of the model raises
NOPE == <<"n", "o", "p", "e">>

\* what a handler of the model returns: "r" and its name
ReturnValue(name) == <<"r">> \o name

\* one entry of the trace. thread is 0 for the thread of RequestHandler.start
\* and k for the k-th worker; flag is the thread argument of a registration
\* and the response argument of an execution
Item(kind, thread, name, client, text, what, flag) ==
    [kind |-> kind, thread |-> thread, name |-> name, client |-> client, text |-> text, what |-> what, flag |-> flag]

\* SpecificRequestHandler(func, name=..., auto_convert=..., allow_python_syntax=..., thread=...);
\* function is what func does when it is called: "returns", "ErrorMessage" or "KeyError"
SpecificRequestHandler(function, name, auto_convert, allow_python_syntax, thread) ==
    [function |-> function, name |-> name, auto_convert |-> auto_convert,
     allow_python_syntax |-> allow_python_syntax, thread |-> thread]

\* RequestHandler.add_request
add_request(registry, function, name, auto_convert, allow_python_syntax, thread) ==
    [n \in (DOMAIN registry) \cup {name} |->
        IF n = name THEN SpecificRequestHandler(function, name, auto_convert, allow_python_syntax, thread)
        ELSE registry[n]]

\* RequestHandler.request(func, name=..., ...): the call with a function
request(registry, function, name, auto_convert, allow_python_syntax, thread) ==
    add_request(registry, function, name, auto_convert, allow_python_syntax, thread)

\* RequestHandler.request(name=..., ...)(func): the lambda calls request again
\* with name, auto_convert and allow_python_syntax, so thread is its default
request_decorator(registry, function, name, auto_convert, allow_python_syntax, thread) ==
    request(registry, function, name, auto_convert, allow_python_syntax, FALSE)

\* the registration of r, in the form r.form
registered(registry, r) ==
    IF r.form = "add_request"
    THEN add_request(registry, r.function, r.name, r.auto_convert, r.allow_python_syntax, r.thread)
    ELSE IF r.form = "request"
    THEN request(registry, r.function, r.name, r.auto_convert, r.allow_python_syntax, r.thread)
    ELSE request_decorator(registry, r.function, r.name, r.auto_convert, r.allow_python_syntax, r.thread)

\* inspect.signature(request_handling_function).return_annotation: the
\* annotation of SpecificRequestHandler.__call__ is Any, and basetypes
\* postpones the evaluation of annotations, so it is the str 'Any'
return_annotation == "'Any'"

\* the end of type_casting: the annotation unless it is Signature.empty or typing.Any
return_callable(annotation) == IF annotation \notin {"empty", "Any"} THEN annotation ELSE "DO_NOTHING"

\* return_converter(value) can be called: DO_NOTHING and classes can, a str cannot (TypeError)
Callable(converter) == converter \in {"DO_NOTHING", "str", "int", "json.dumps"}

\* the packets send_to_client cuts for the entry c: of the encoded data for an
\* insecure client, of the data for a secure one
cut_packets(c, data) ==
    IF conns[c].secure THEN batched(data, (get_packet_size(packet_size, is_turbowarp) \div 2) - CONNECT_PREFIX_DIGITS)
    ELSE batched(_encode(data), get_packet_size(packet_size, is_turbowarp))

\* the str handed to int() for each packet of cut
packet_texts(c, cut, rand, seed) ==
    [i \in 1..Len(cut) |->
        write_value(i < Len(cut),
                    IF conns[c].secure
                    THEN _encode(encrypt(conns[c].key, cut[i], now, seed)) \o zfill(IntToStr(now), SALT_DIGITS)
                    ELSE cut[i],
                    conns[c].client_id, rand, i - 1)]

\* the loop over the packets: the writes made until int() refuses a value,
\* and the exception
write_packets(c, texts, last_var) ==
    LET refused == {i \in 1..Len(texts) : ~IntParses(texts[i])}
        done == IF refused = {} THEN Len(texts) ELSE Least(refused) - 1
    IN  [raised |-> IF refused = {} THEN "no" ELSE "ValueError",
         writes |-> [i \in 1..done |->
                        [call |-> 0, entry |-> c, value |-> texts[i],
                         var |-> IF i = Len(texts) THEN last_var ELSE ((i - 1) % 4) + 1]]]

\* send_to_client / secure_send_to_client as one step of the thread that holds
\* client.sending
send_to_client(data, client_id, rand, seed, last_var) ==
    IF client_id \notin DOMAIN clients THEN [raised |-> "KeyError", writes |-> <<>>]
    ELSE IF conns[clients[client_id]].secure /\ (get_packet_size(packet_size, is_turbowarp) \div 2) - CONNECT_PREFIX_DIGITS < 1
    THEN [raised |-> "ValueError", writes |-> <<>>]
    ELSE IF cut_packets(clients[client_id], data) = <<>> THEN [raised |-> "IndexError", writes |-> <<>>]
    ELSE write_packets(clients[client_id],
                       packet_texts(clients[client_id], cut_packets(clients[client_id], data), rand, seed),
                       last_var)

\* BaseCloudSocketConnection.send of the entry client
client_send(client, data) == send_to_client(data, conns[client].client_id, <<"4", "2", "7">>, 1234, 1)

\* what an execution has done (items) and the exception that leaves it ("no" for none)
Done(items, raised) == [items |-> items, raised |-> raised]

\* what has been done, and then what came after it
Then(items, after) == Done(items \o after.items, after.raised)

\* send_response(response_text) has run: raised is how client.send ended
sent_response(thread, req, client, text, raised) ==
    Done(<<Item("send", thread, req.name, client, text, raised, TRUE)>>, raised)

\* the end of execute_request: nothing without response, send_response(response_text) with it
respond_with(thread, req, client, response, text) ==
    IF ~response THEN Done(<<>>, "no")
    ELSE sent_response(thread, req, client, text, client_send(client, text).raised)

\* the emit and the warning of execute_request for an exception it reports;
\* the event goes to self.current_client
reported(thread, req, current, warning) ==
    IF current = 0 THEN <<Item("warn", thread, req.name, current, <<>>, warning, FALSE)>>
    ELSE <<Item("emit", thread, req.name, current, <<>>, "error_in_request", FALSE),
           Item("warn", thread, req.name, current, <<>>, warning, FALSE)>>

\* the try block of execute_request: the handler is called and its result is
\* converted; raised is the exception of the block, text the response_text
attempt(thread, req, client) ==
    IF req.function = "returns"
    THEN [items |-> <<Item("call", thread, req.name, client, <<>>, "", FALSE),
                      Item("return", thread, req.name, client, ReturnValue(req.name), "", FALSE)>>,
          raised |-> IF Callable(return_callable(return_annotation)) THEN "no" ELSE "TypeError",
          text |-> ReturnValue(req.name)]
    ELSE [items |-> <<Item("call", thread, req.name, client, <<>>, "", FALSE),
                      Item("raise", thread, req.name, client, <<>>, req.function, FALSE)>>,
          raised |-> req.function,
          text |-> NOPE]

\* the hook is called with the exception
hooked(thread, req, client, exception) == <<Item("hook", thread, req.name, client, <<>>, exception, FALSE)>>

\* execute_request from the first except clause on, without a hook to call:
\* the response_text of an ErrorMessage or of a result is sent; any other
\* exception is reported, and send_response(response_text) then raises
\* UnboundLocalError
unhooked(thread, req, client, response, current, tried) ==
    IF tried.raised \in {"no", "ErrorMessage"}
    THEN Then(tried.items, respond_with(thread, req, client, response, tried.text))
    ELSE Done(tried.items \o reported(thread, req, current, "Error in request"),
              IF response THEN "UnboundLocalError" ELSE "no")

\* execute_request with retried=True
execute_retried(thread, req, client, response, current) ==
    unhooked(thread, req, client, response, current, attempt(thread, req, client))

\* the hook has called retry_callable and rerun is how that ended: an
\* exception of the rerun leaves the hook, is reported, and execute_request returns
retried_by_hook(thread, req, current, rerun) ==
    Done(rerun.items \o (IF rerun.raised = "no" THEN <<>>
                         ELSE reported(thread, req, current, "Error in request couldn't be handled")),
         "no")

\* execute_request with retried=False, from the first except clause on. hook
\* is what self.error_handler does: "None" (no hook), "returns", "retries"
\* (it calls retry_callable, which is respond(retried=True), and returns) or
\* "raises"
excepted(thread, req, client, response, current, hook, tried) ==
    IF tried.raised \in {"no", "ErrorMessage"} \/ hook = "None"
    THEN unhooked(thread, req, client, response, current, tried)
    ELSE IF hook = "returns" THEN Done(tried.items \o hooked(thread, req, client, tried.raised), "no")
    ELSE IF hook = "retries"
    THEN Then(tried.items \o hooked(thread, req, client, tried.raised),
              retried_by_hook(thread, req, current, execute_retried(thread, req, client, response, current)))
    ELSE Done(tried.items \o hooked(thread, req, client, tried.raised)
                  \o reported(thread, req, current, "Error in request couldn't be handled"), "no")

\* an execute_request whose retry goes to the hook again
execute_request_hooking_retries(thread, req, client, response, current, hook) ==
    IF hook = "retries" /\ req.function \notin {"returns", "ErrorMessage"}
    THEN Done(attempt(thread, req, client).items \o hooked(thread, req, client, req.function)
                  \o attempt(thread, req, client).items \o hooked(thread, req, client, req.function), "no")
    ELSE excepted(thread, req, client, response, current, hook, attempt(thread, req, client))

\* execute_request with retried=False
execute_request(thread, req, client, response, current, hook) ==
    excepted(thread, req, client, response, current, hook, attempt(thread, req, client))

\* a worker of dispatch_request: StoppableThread(target=respond)
Worker(name, client, response) == [name |-> name, client |-> client, response |-> response, pc |-> "started", raised |-> "no"]

\* what process_request has done: the response it returns (<<>> for None),
\* the trace and the workers it has started
Processed(response, items, started) == [response |-> response, items |-> items, started |-> started]

\* the loop of process_request goes on after a sub-request that started a worker
after_start(item, worker, rest) == Processed(rest.response, <<item>> \o rest.items, <<worker>> \o rest.started)

\* the loop of process_request after an execution: an exception ends it with
\* the response "Something went wrong." and a warning
after_execution(item, client, done, rest) ==
    IF done.raised # "no"
    THEN Processed(WENT_WRONG,
                   <<item>> \o done.items
                       \o <<Item("warn", 0, <<>>, client, <<>>, "Something went wrong with a request", FALSE)>>,
                   <<>>)
    ELSE Processed(rest.response, <<item>> \o done.items \o rest.items, rest.started)

\* dispatch_request: request_handling_function.thread
dispatch_request_in_thread(registry, name) == registry[name].thread

RECURSIVE dispatch_requests(_, _, _, _, _, _)
\* the loop of process_request over sub_requests from the idx-th on, with
\* dispatch_request; before workers have been started before
dispatch_requests(registry, sub_requests, idx, client, hook, before) ==
    IF idx > Len(sub_requests) THEN Processed(<<>>, <<>>, <<>>)
    ELSE IF dispatch_request_in_thread(registry, sub_requests[idx].name)
    THEN after_start(Item("start", before + 1, sub_requests[idx].name, client, <<>>, "", idx = Len(sub_requests)),
                     Worker(sub_requests[idx].name, client, idx = Len(sub_requests)),
                     dispatch_requests(registry, sub_requests, idx + 1, client, hook, before + 1))
    ELSE after_execution(Item("dispatch", 0, sub_requests[idx].name, client, <<>>, "", idx = Len(sub_requests)),
                         client,
                         execute_request(0, registry[sub_requests[idx].name], client, idx = Len(sub_requests), client, hook),
                         dispatch_requests(registry, sub_requests, idx + 1, client, hook, before))

\* process_request after the parsing loop
process_parsed(registry, msg, client, hook, before, parsed) ==
    IF parsed.raised # "no"
    THEN Processed(SYNTAX_WRONG,
                   <<Item("emit", 0, <<>>, client, msg, "invalid_syntax", FALSE),
                     Item("warn", 0, <<>>, client, msg, "Received a request with an invalid syntax", FALSE)>>,
                   <<>>)
    ELSE dispatch_requests(registry, parsed.sub_requests, 1, client, hook, before)

\* RequestHandler.process_request(msg, client, ...), with send_response = client.send
process_request(registry, msg, client, hook, before) ==
    process_parsed(registry, msg, client, hook, before, parse_sub_requests(registry, msg))

RECURSIVE writes_of(_)
\* the writes of the sends among items, in order
writes_of(items) ==
    IF items = <<>> THEN <<>>
    ELSE (IF Head(items).kind = "send" THEN client_send(Head(items).client, Head(items).text).writes ELSE <<>>)
             \o writes_of(Tail(items))

\* the registrations the application makes before it starts the handler:
\* a, b, c return, e raises ErrorMessage, x raises KeyError, n does not allow
\* the call form, and t, u, w are asked to run in a worker, each in one of
\* the three forms of registration
Registrations ==
    << [form |-> "add_request", name |-> <<"a">>, function |-> "returns", auto_convert |-> FALSE, allow_python_syntax |-> TRUE, thread |-> FALSE],
       [form |-> "request", name |-> <<"b">>, function |-> "returns", auto_convert |-> FALSE, allow_python_syntax |-> TRUE, thread |-> FALSE],
       [form |-> "decorator", name |-> <<"c">>, function |-> "returns", auto_convert |-> FALSE, allow_python_syntax |-> TRUE, thread |-> FALSE],
       [form |-> "add_request", name |-> <<"e">>, function |-> "ErrorMessage", auto_convert |-> FALSE, allow_python_syntax |-> TRUE, thread |-> FALSE],
       [form |-> "add_request", name |-> <<"x">>, function |-> "KeyError", auto_convert |-> FALSE, allow_python_syntax |-> TRUE, thread |-> FALSE],
       [form |-> "add_request", name |-> <<"n">>, function |-> "returns", auto_convert |-> FALSE, allow_python_syntax |-> FALSE, thread |-> FALSE],
       [form |-> "decorator", name |-> <<"t">>, function |-> "KeyError", auto_convert |-> TRUE, allow_python_syntax |-> TRUE, thread |-> TRUE],
       [form |-> "request", name |-> <<"u">>, function |-> "KeyError", auto_convert |-> FALSE, allow_python_syntax |-> TRUE, thread |-> TRUE],
       [form |-> "add_request", name |-> <<"w">>, function |-> "returns", auto_convert |-> FALSE, allow_python_syntax |-> TRUE, thread |-> TRUE] >>

\* what the hook the application registers with on_error does
Hooks == {"returns", "retries", "raises"}

\* RequestHandler.__init__
InitRequestHandler ==
    /\ requests = <<>>
    /\ error_handler = "None"
    /\ current_client = 0
    /\ main_loop = [pc |-> "none", clients |-> <<>>, idx |-> 0]
    /\ workers = <<>>
    /\ trace = <<>>

\* the application makes its next registration
register ==
    /\ main_loop.pc = "none"
    /\ Len(trace) < Len(Registrations)
    /\ LET r == Registrations[Len(trace) + 1]
       IN  /\ requests' = registered(requests, r)
           /\ trace' = Append(trace, Item("register", 0, r.name, 0, <<>>, r.form, r.thread))
    /\ UNCHANGED <<reader_vars, packet_size, thread_running, is_turbowarp, writes, link_vars, bus_vars>>
    /\ UNCHANGED <<error_handler, current_client, main_loop, workers>>
    /\ UNCHANGED <<thread_vars, now, ghost_vars>>

\* RequestHandler.on_error(func)
on_error(hook) ==
    /\ main_loop.pc = "none"
    /\ Len(trace) = Len(Registrations)
    /\ error_handler = "None"
    /\ error_handler' = hook
    /\ UNCHANGED <<reader_vars, packet_size, thread_running, is_turbowarp, writes, link_vars, bus_vars>>
    /\ UNCHANGED <<requests, current_client, main_loop, workers, trace>>
    /\ UNCHANGED <<thread_vars, now, ghost_vars>>

\* RequestHandler.start: self.cloud_socket.listen() and clients = []
start ==
    /\ main_loop.pc = "none"
    /\ Len(trace) = Len(Registrations)
    /\ main_loop' = [pc |-> "wait", clients |-> <<>>, idx |-> 0]
    /\ UNCHANGED <<reader_vars, packet_size, thread_running, is_turbowarp, writes, link_vars, bus_vars>>
    /\ UNCHANGED <<requests, error_handler, current_client, workers, trace>>
    /\ UNCHANGED <<thread_vars, now, ghost_vars>>

\* a loop whose handler lets every exception through
caught_by_nothing(exception) == FALSE

\* except Exception: the exceptions of the model that derive from Exception
caught_by_loop(exception) == exception \in {"KeyError", "ValueError", "IndexError", "TypeError", "UnboundLocalError"}

\* start: any_update.wait(30) returns, by the flag or by the timeout, and
\* accept(timeout=0) pops the oldest new client or raises TimeoutError
loop_accept ==
    /\ main_loop.pc = "wait"
    /\ IF new_clients # <<>>
       THEN /\ new_clients' = Tail(new_clients)
            /\ accept_log' = Append(accept_log, Head(new_clients))
            /\ main_loop' = [pc |-> "recv", clients |-> Append(main_loop.clients, Head(new_clients)), idx |-> 1]
       ELSE /\ main_loop' = [main_loop EXCEPT !.pc = "recv", !.idx = 1]
            /\ UNCHANGED <<new_clients, accept_log>>
    /\ UNCHANGED <<security, clients, conns, key_parts, last_timestamp, accepted, received_any, any_update>>
    /\ UNCHANGED <<packet_size, thread_running, is_turbowarp, writes, link_vars, bus_vars>>
    /\ UNCHANGED <<requests, error_handler, current_client, workers, trace>>
    /\ UNCHANGED <<accepting, pc, call, stop_result, now, last, packets, calls, history, accepted_salt>>

\* the for loop of start after process_request has returned done for the
\* message msg of client, and client.send(response), when there is a response,
\* has ended as sent says: an exception goes to the handler of the while
\* loop, which emits uncaught_error and warns
after_process(client, msg, done, sent) ==
    <<Item("recv", 0, <<>>, client, msg, "", FALSE)>> \o done.items
        \o (IF done.response # <<>> THEN <<Item("send", 0, <<>>, client, done.response, sent, TRUE)>> ELSE <<>>)
        \o (IF sent # "no"
            THEN <<Item("emit", 0, <<>>, client, msg, "uncaught_error", FALSE),
                   Item("warn", 0, <<>>, client, msg, "There was an uncaught error in the request handler", FALSE)>>
            ELSE <<>>)

\* start: one round of the for loop. client.recv(timeout=0) pops the oldest
\* message of the entry that has the client's id or raises TimeoutError; the
\* message goes through process_request, a response through client.send, and
\* an exception ends the for loop
loop_recv ==
    /\ main_loop.pc = "recv"
    /\ IF main_loop.idx > Len(main_loop.clients)
       THEN /\ main_loop' = [main_loop EXCEPT !.pc = "wait"]
            /\ UNCHANGED <<conns, history, writes, current_client, workers, trace>>
       ELSE \E client \in {main_loop.clients[main_loop.idx]} :
            \E entry \in {clients[conns[client].client_id]} :
                IF conns[entry].new_msgs = <<>>
                THEN /\ main_loop' = [main_loop EXCEPT !.idx = @ + 1]
                     /\ UNCHANGED <<conns, history, writes, current_client, workers, trace>>
                ELSE \E msg \in {Head(conns[entry].new_msgs)} :
                     \E done \in {process_request(requests, msg, client, error_handler, Len(workers))} :
                     \E sent \in {IF done.response # <<>> THEN client_send(client, done.response).raised ELSE "no"} :
                     \E items \in {after_process(client, msg, done, sent)} :
                         /\ conns' = [conns EXCEPT ![entry].new_msgs = Tail(@)]
                         /\ history' = [history EXCEPT ![entry].returned = Append(@, msg)]
                         /\ current_client' = client
                         /\ workers' = workers \o done.started
                         /\ trace' = trace \o items
                         /\ writes' = writes \o writes_of(items)
                         /\ main_loop' = IF sent = "no" THEN [main_loop EXCEPT !.idx = @ + 1]
                                         ELSE IF caught_by_loop(sent) THEN [main_loop EXCEPT !.pc = "wait"]
                                         ELSE [main_loop EXCEPT !.pc = "dead"]
    /\ UNCHANGED <<security, clients, new_clients, key_parts, last_timestamp, accepted, received_any, any_update>>
    /\ UNCHANGED <<packet_size, thread_running, is_turbowarp, link_vars, bus_vars, requests, error_handler>>
    /\ UNCHANGED <<accepting, pc, call, stop_result, now, last, packets, calls, accepted_salt, accept_log>>

\* the worker k calls the handler
worker_call(k) ==
    /\ workers[k].pc = "started"
    /\ workers' = [workers EXCEPT ![k].pc = "running"]
    /\ trace' = Append(trace, Head(attempt(k, requests[workers[k].name], workers[k].client).items))
    /\ UNCHANGED <<reader_vars, packet_size, thread_running, is_turbowarp, writes, link_vars, bus_vars>>
    /\ UNCHANGED <<requests, error_handler, current_client, main_loop>>
    /\ UNCHANGED <<thread_vars, now, ghost_vars>>

\* the handler of the worker k ends, and the rest of execute_request runs; an
\* exception that leaves execute_request ends the thread
worker_end(k) ==
    /\ workers[k].pc = "running"
    /\ \E done \in {execute_request(k, requests[workers[k].name], workers[k].client,
                                    workers[k].response, current_client, error_handler)} :
           /\ workers' = [workers EXCEPT ![k].pc = "ended", ![k].raised = done.raised]
           /\ trace' = trace \o Tail(done.items)
           /\ writes' = writes \o writes_of(Tail(done.items))
    /\ UNCHANGED <<reader_vars, packet_size, thread_running, is_turbowarp, link_vars, bus_vars>>
    /\ UNCHANGED <<requests, error_handler, current_client, main_loop>>
    /\ UNCHANGED <<thread_vars, now, ghost_vars>>

\* the requests delivered in one run
MaxRequests == 3

\* the handler against one client that sends requests
NextRequests ==
    \/ register
    \/ \E hook \in Hooks : on_error(hook)
    \/ start
    \/ \E e \in RequestEvents : packets < MaxRequests /\ Deliver(e)
    \/ loop_accept
    \/ loop_recv
    \/ \E k \in 1..Len(workers) : worker_call(k)
    \/ \E k \in 1..Len(workers) : worker_end(k)

InitRequests ==
    /\ security = "None"
    /\ packet_size = AUTO
    /\ InitSocket
    /\ InitRequestHandler

SpecRequests == InitRequests /\ [][NextRequests]_vars

\* the reader has handled the connect frame of client
connected(client) == client \in DOMAIN clients

\* the reader has put the message m into the queue of its client
enqueued(m) ==
    /\ m.client \in DOMAIN clients
    /\ \E i \in 1..Len(history[clients[m.client]].enqueued) : history[clients[m.client]].enqueued[i] = m.text

\* the events the reader hands over in one run of the loop
MaxLoopEvents == 7

\* the handler against two clients: each connects once and sends each of its
\* requests once, in any order
NextLoop ==
    \/ register
    \/ start
    \/ \E client \in {ClientA, ClientB} : packets < MaxLoopEvents /\ ~connected(client) /\ Deliver(LoopConnect(client))
    \/ \E m \in LoopMessages : packets < MaxLoopEvents /\ connected(m.client) /\ ~enqueued(m) /\ Deliver(LoopEvent(m))
    \/ loop_accept
    \/ loop_recv

SpecLoop == InitRequests /\ [][NextLoop]_vars

\* the handler against one client that sends messages with a faulty sub-request
NextFaulty ==
    \/ register
    \/ start
    \/ packets < MaxLoopEvents /\ ~connected(ClientA) /\ Deliver(LoopConnect(ClientA))
    \/ \E m \in FaultyMessages : packets < MaxLoopEvents /\ connected(m.client) /\ ~enqueued(m) /\ Deliver(LoopEvent(m))
    \/ loop_accept
    \/ loop_recv

SpecFaulty == InitRequests /\ [][NextFaulty]_vars

\* the handler against two clients, one of which has its request run in a worker
NextAttribution ==
    \/ register
    \/ start
    \/ \E client \in {ClientA, ClientB} : packets < MaxLoopEvents /\ ~connected(client) /\ Deliver(LoopConnect(client))
    \/ \E m \in AttributionMessages : packets < MaxLoopEvents /\ connected(m.client) /\ ~enqueued(m) /\ Deliver(LoopEvent(m))
    \/ loop_accept
    \/ loop_recv
    \/ \E k \in 1..Len(workers) : worker_call(k)
    \/ \E k \in 1..Len(workers) : worker_end(k)

SpecAttribution == InitRequests /\ [][NextAttribution]_vars

\* where one step takes the loop of start: from the wait into the for loop,
\* with the clients it had and at most one more, and in the for loop to the
\* next client, back to the wait, or out of the loop by an exception that
\* nothing catches
loop_steps ==
    IF main_loop.pc = "wait"
    THEN {[pc |-> "recv", clients |-> main_loop.clients \o more, idx |-> 1] :
              more \in {<<>>} \cup {<<c>> : c \in 1..Len(conns)}}
    ELSE IF main_loop.pc = "recv"
    THEN {[main_loop EXCEPT !.idx = @ + 1], [main_loop EXCEPT !.pc = "wait"], [main_loop EXCEPT !.pc = "dead"]}
    ELSE {}

\* the thread that runs start takes a step
loop_step == main_loop' \in loop_steps

\* the thread that runs start is scheduled: any_update.wait(30) returns after
\* 30 seconds at the latest, and accept(timeout=0) and recv(timeout=0) do not wait
SpecLoopLive == SpecLoop /\ WF_main_loop(loop_step)

\* the client entries created in one run in which clients connect again
MaxEntries == 3

\* the requests of the clients that may connect again: two of one client and
\* one of the other
RejoinMessages == {m \in LoopMessages : m.text \in {<<"z">>, <<"x">>, <<"a">>}}

\* the handler against two clients that may connect again: a client sends a
\* connect frame at any time, and each of its requests once to an entry
NextRejoin ==
    \/ register
    \/ start
    \/ \E client \in {ClientA, ClientB} :
           packets < MaxLoopEvents /\ Len(conns) < MaxEntries /\ Deliver(LoopConnect(client))
    \/ \E m \in RejoinMessages : packets < MaxLoopEvents /\ connected(m.client) /\ ~enqueued(m) /\ Deliver(LoopEvent(m))
    \/ loop_accept
    \/ loop_recv

SpecRejoin == InitRequests /\ [][NextRejoin]_vars

\* the thread that runs start is scheduled, as in SpecLoopLive
SpecRejoinLive == SpecRejoin /\ WF_main_loop(loop_step)

(* ------------------------------------------------------------------ *)
(* The event bus and the reader of the CloudConnection                 *)
(* ------------------------------------------------------------------ *)

\* the prefix of the names of cloud variables: the cloud symbol, for which
\* "C" stands, and a space
CLOUD_PREFIX == <<"C", " ">>

\* name.removeprefix(prefix)
removeprefix(name, prefix) ==
    IF Len(name) >= Len(prefix) /\ SubSeq(name, 1, Len(prefix)) = prefix
    THEN SubSeq(name, Len(prefix) + 1, Len(name))
    ELSE name

\* one line of a frame, as text: a JSON object with the keys "method", "name"
\* and "value"; <<>> is an empty line
Line(method, name, value) == <<method, name, value, {"method", "name", "value"}>>

\* a line whose JSON object has only the keys in keys
LineWith(keys, method, name, value) ==
    <<IF "method" \in keys THEN method ELSE "", IF "name" \in keys THEN name ELSE <<>>,
      IF "value" \in keys THEN value ELSE None, keys>>

\* a line that is no JSON text
NOT_JSON == <<"{">>

\* json.loads(j) returns
is_json(line) == Len(line) = 4

\* i["name"] or i.pop("method") raises KeyError
lacks_key(line) == "name" \notin line[4] \/ "method" \notin line[4]

\* json.loads(j), then i["var"] = i["name"], the prefix taken off i["name"]
\* and method popped: the entries of the event
Entries(line) == [type |-> line[1], name |-> removeprefix(line[2], CLOUD_PREFIX), var |-> line[2], value |-> line[3]]

\* [json.loads(j) for j in self.websocket.recv().split("\n") if j]
loaded(frame) == SelectSeq(frame, LAMBDA j : j # <<>>)

\* what the event bus has seen: a registration, a frame, a line, a handler
\* called with an event, a warning; n is the handler, or the number of lines
Seen(kind, n, event, data) == [kind |-> kind, n |-> n, event |-> event, data |-> data]

NoData == [type |-> "", name |-> <<>>, var |-> <<>>, value |-> 0]

\* the handlers of registry for event: self.events[event], none when event
\* is not in self.events
handlers_of(registry, event) == IF event \in DOMAIN registry THEN registry[event] ELSE <<>>

\* the body of the for loop of _emit_event for the handler i: the call, and
\* the warning when it raises
handled(i, event, data) ==
    IF i.does = "returns" THEN <<Seen("handle", i.id, event, data)>>
    ELSE <<Seen("handle", i.id, event, data), Seen("warn", i.id, event, data)>>

\* what has been seen, the amount returned and the exception that leaves
Emitted(items, amount, raised) == [items |-> items, amount |-> amount, raised |-> raised]

\* an _emit_event without the try: the exception of a handler leaves it
_emit_event_raising(registry, event, data) ==
    LET handlers == handlers_of(registry, event)
        raising == {k \in 1..Len(handlers) : handlers[k].does = "raises"}
        ran == IF raising = {} THEN Len(handlers) ELSE Least(raising)
    IN  Emitted([k \in 1..ran |-> Seen("handle", handlers[k].id, event, data)],
                Cardinality((1..ran) \ raising),
                IF raising = {} THEN "no" ELSE "Exception")

\* CloudConnection._emit_event(event, data)
_emit_event(registry, event, data) ==
    LET handlers == handlers_of(registry, event)
    IN  Emitted(Concat([k \in 1..Len(handlers) |-> handled(handlers[k], event, data)]),
                Cardinality({k \in 1..Len(handlers) : handlers[k].does = "returns"}),
                "no")

\* the second _emit_event of emit_event, which runs when the first has returned
emit_any(first, second) ==
    IF first.raised # "no" THEN first
    ELSE Emitted(first.items \o second.items, first.amount + second.amount, second.raised)

\* CloudConnection.emit_event(event, **entries):
\* self._emit_event(event, data) + self._emit_event("any", data)
emit_event(registry, data) ==
    emit_any(_emit_event(registry, data.type, data), _emit_event(registry, "any", data))

\* the body of the for loop of receive_new_data for the k-th line: what is
\* seen, and the exception that leaves it: KeyError for a missing "name" or
\* "method", the exception of emit_event, KeyError for a "set" without "value"
line_done(registry, k, line, first) ==
    IF lacks_key(line) THEN [items |-> <<>>, raised |-> "KeyError"]
    ELSE LET emitted == IF first THEN Emitted(<<>>, 0, "no") ELSE emit_event(registry, Entries(line))
         IN  [items |-> <<Seen("line", k, line[1], Entries(line))>> \o emitted.items,
              raised |-> IF emitted.raised # "no" THEN emitted.raised
                         ELSE IF line[1] = "set" /\ "value" \notin line[4] THEN "KeyError"
                         ELSE "no"]

\* the lines of a frame that receive_new_data gets through: all of them, or
\* those up to the first whose round of the for loop raises
got_through(registry, lines, first) ==
    LET raising == {k \in 1..Len(lines) : line_done(registry, k, lines[k], first).raised # "no"}
    IN  IF raising = {} THEN Len(lines) ELSE Least(raising)

\* the values after the first n of lines: self.values[i["var"]] = i["value"]
\* for every "set"
values_after(old, lines, n, raised) ==
    LET sets == {k \in 1..n : lines[k][1] = "set" /\ ~(raised /\ k = n)}
        names == {lines[k][2] : k \in sets}
    IN  [v \in (DOMAIN old) \cup names |->
            IF v \in names THEN lines[Greatest({k \in sets : lines[k][2] = v})][3] ELSE old[v]]

\* receive_new_data(first) for a frame: json.loads of every line comes
\* before the for loop, so one line that is no JSON leaves nothing of the
\* frame processed
receive_new_data(registry, old, frame, first) ==
    LET lines == loaded(frame)
        n == got_through(registry, lines, first)
        raised == IF n = 0 THEN "no" ELSE line_done(registry, n, lines[n], first).raised
    IN  IF \E k \in 1..Len(lines) : ~is_json(lines[k])
        THEN [items |-> <<Seen("frame", Len(lines), IF first THEN "first" ELSE "", NoData)>>,
              values |-> old,
              raised |-> "JSONDecodeError"]
        ELSE [items |-> <<Seen("frame", Len(lines), IF first THEN "first" ELSE "", NoData)>>
                            \o Concat([k \in 1..n |-> line_done(registry, k, lines[k], first).items]),
              values |-> values_after(old, lines, n, raised # "no"),
              raised |-> raised]

\* the handlers an application registers, and whether they return or raise
MaxHandlers == 3

\* the frames the WebSocket returns in one run
MaxFrames == 3

\* the number of handlers registered so far
registrations == Cardinality({p \in 1..Len(trace) : trace[p].kind = "on"})

\* the number of frames receive_new_data has taken so far
frames_taken == Cardinality({p \in 1..Len(trace) : trace[p].kind = "frame"})

\* the events the application registers its handlers for, in this order
BusEvents == <<"set", "set", "any", "set", "any">>

\* CloudConnection.on(event)(func): func does what does says
on(event, does) ==
    /\ registrations < MaxHandlers
    /\ events' = [e \in (DOMAIN events) \cup {event} |->
                     handlers_of(events, e) \o (IF e = event THEN <<[id |-> registrations + 1, does |-> does]>> ELSE <<>>)]
    /\ trace' = Append(trace, Seen("on", registrations + 1, event, NoData))
    /\ UNCHANGED <<values, receive_at>>
    /\ UNCHANGED <<reader_vars, packet_size, thread_running, is_turbowarp, writes, link_vars>>
    /\ UNCHANGED <<requests, error_handler, current_client, main_loop, workers>>
    /\ UNCHANGED <<thread_vars, now, ghost_vars>>

\* the frames of the model: two lines for one variable with an empty line
\* between them, and a "delete" with a "set" of a name without the prefix
BusFrames ==
    { <<Line("set", <<"C", " ", "a">>, 2), <<>>, Line("set", <<"C", " ", "a">>, 3)>>,
      <<Line("delete", <<"C", " ", "b">>, 0), Line("set", <<"b">>, 4)>> }

\* receive_data: _prepare_handle_connection takes the first frame with
\* receive_new_data(first=True), then the while loop takes one frame after
\* the other; frame is what self.websocket.recv() returns.
\* WebSocketTimeoutException is passed over, any other exception of
\* receive_new_data ends the thread
receive_data(frame) ==
    /\ thread_running
    /\ receive_at \in {"prepare", "receive"}
    /\ frames_taken < MaxFrames
    /\ \E got \in {receive_new_data(events, values, frame, receive_at = "prepare")} :
           /\ trace' = trace \o got.items
           /\ values' = got.values
           /\ receive_at' = IF got.raised = "no" THEN "receive" ELSE "dead"
    /\ UNCHANGED events
    /\ UNCHANGED <<reader_vars, packet_size, thread_running, is_turbowarp, writes, link_vars>>
    /\ UNCHANGED <<requests, error_handler, current_client, main_loop, workers>>
    /\ UNCHANGED <<thread_vars, now, ghost_vars>>

\* an application that registers handlers while the reader receives frames
NextBus ==
    \/ \E does \in {"returns", "raises"} : registrations < Len(BusEvents) /\ on(BusEvents[registrations + 1], does)
    \/ \E frame \in BusFrames : receive_data(frame)

SpecBus == InitInsecure /\ [][NextBus]_vars

\* the calls of listen in one run
MaxListens == 2

\* the handlers listen has registered for "set"
listeners == SelectSeq(handlers_of(events, "set"), LAMBDA h : h.does = "on_packet")

\* CloudSocket.listen: on_packet is registered with self.cloud.on("set")
listen ==
    /\ Len(listeners) < MaxListens
    /\ on("set", "on_packet")

RECURSIVE on_packet_each(_, _, _, _, _, _)
\* the for loop of _emit_event over the n handlers listen has registered,
\* each of which is on_packet
on_packet_each(S, name, p, time, user, n) ==
    IF n = 0 THEN S ELSE on_packet_each(on_packet(S, name, p, time, user), name, p, time, user, n - 1)

\* the history of entry c after the handlers have taken the socket to R
RecordedEach(R, name, p, c) ==
    [Recorded(R, name, p, c) EXCEPT
         !.enqueued = history[c].enqueued
                          \o SubSeq(R.conns[c].new_msgs, Len(conns[c].new_msgs) + 1, Len(R.conns[c].new_msgs))]

\* the reader thread emits one "set" event to the handlers of "set"
emit_set(e) ==
    LET p == PacketOf[e.value]
    IN  \E R \in {on_packet_each(Sock, e.name, p, now, e.user, Len(listeners))} :
            /\ thread_running
            /\ listeners # <<>>
            /\ security' = R.security
            /\ clients' = R.clients
            /\ conns' = R.conns
            /\ new_clients' = R.new_clients
            /\ key_parts' = R.key_parts
            /\ last_timestamp' = R.last_timestamp
            /\ accepted' = R.accepted
            /\ received_any' = R.received_any
            /\ any_update' = R.any_update
            /\ last' = [name |-> e.name, value |-> e.value, branch |-> R.branch, outcome |-> R.outcome]
            /\ packets' = packets + 1
            /\ history' = [c \in 1..Len(R.conns) |-> IF c > Len(conns) THEN NoHistory ELSE RecordedEach(R, e.name, p, c)]
            /\ accepted_salt' = accepted_salt
            /\ UNCHANGED <<cloud_vars, thread_vars, now>>

\* an application that calls listen once or twice while two insecure clients
\* connect and, once connected, send message parts
ListenEvents ==
    { Event(FROM_CLIENT, ConnectFrame(FALSE, ClientA), "user"),
      Event(FROM_CLIENT, TextFrame(TRUE, <<"a">>, ClientA), "user"),
      Event(FROM_CLIENT, TextFrame(FALSE, <<"H", "i">>, ClientA), "user"),
      Event(FROM_CLIENT, ConnectFrame(FALSE, ClientB), "user"),
      Event(FROM_CLIENT, TextFrame(FALSE, <<"a">>, ClientB), "user") }

NextListen ==
    \/ listen
    \/ \E e \in ListenEvents :
           /\ packets < MaxPackets
           /\ PacketOf[e.value].is_connect \/ connected(PacketOf[e.value].client)
           /\ emit_set(e)

SpecListen == InitInsecure /\ [][NextListen]_vars

\* frames with a line that is no JSON, that lacks "name", "method" or
\* "value", or whose value no handler can parse
BadFrames ==
    { <<Line("set", <<"C", " ", "a">>, 5), NOT_JSON>>,
      <<LineWith({"method", "value"}, "set", <<>>, 6)>>,
      <<LineWith({"name", "value"}, "", <<"C", " ", "a">>, 7)>>,
      <<LineWith({"method", "name"}, "set", <<"C", " ", "a">>, 0)>> }

\* an application that registers handlers while the reader receives frames,
\* some of them malformed
NextReader ==
    \/ \E does \in {"returns", "raises"} : registrations < Len(BusEvents) /\ on(BusEvents[registrations + 1], does)
    \/ \E frame \in BusFrames \cup BadFrames : receive_data(frame)

SpecReader == InitInsecure /\ [][NextReader]_vars

(* ------------------------------------------------------------------ *)
(* The connection of the CloudConnection                               *)
(* ------------------------------------------------------------------ *)

\* retry : int = 3 of _handle_connect
RETRY == 3

\* the retry=10 that set_variable passes to _set_variable
SET_RETRY == 10

\* how an operation on the network ends: WebSocket.connect and
\* WebSocket.send return, or raise ssl.SSLCertVerificationError, a
\* ConnectionError of the operating system, or another Exception
Outcomes == {"ok", "SSLCertVerificationError", "ConnectionError", "Exception"}

\* net says how the operations on the network end, in the order they are
\* made; those after its end return
outcome(net, at) == IF at <= Len(net) THEN net[at] ELSE "ok"

\* the data of the connect event
ConnectData == [type |-> "connect", name |-> <<>>, var |-> <<>>, value |-> 0]

\* what a call has done, the operations on the network it has used up, the
\* WebSocket it leaves and its result: "None", "returns ConnectionError" or
\* the exception it raises
Connected(items, at, socket, result) == [items |-> items, at |-> at, websocket |-> socket, result |-> result]

\* the call raises
raises(result) == result \notin {"None", "returns ConnectionError"}

\* _handle_connect(retry): _connect, handshake and the connect event; after
\* SSLCertVerificationError the ConnectionError is returned, or _connect is
\* called without a certificate; after another Exception the ConnectionError
\* is returned when retry is 1, else _handle_connect(retry - 1) is called and
\* what it returns is raised
RECURSIVE _handle_connect(_, _, _, _, _)
_handle_connect(registry, allow, net, at, retry) ==
    LET opened == outcome(net, at)
        next == outcome(net, at + 1)
    IN  IF opened = "ok" /\ next = "ok"
        THEN Connected(<<Seen("open", retry, "verified", NoData), Seen("send", retry, "handshake", NoData),
                         Seen("emit", retry, "connect", NoData)>> \o emit_event(registry, ConnectData).items,
                       at + 2, "open", "None")
        ELSE IF opened = "SSLCertVerificationError"
        THEN IF ~allow
             THEN Connected(<<Seen("fail", retry, "open", NoData)>>, at + 1, "closed", "returns ConnectionError")
             ELSE IF next = "ok"
             THEN Connected(<<Seen("fail", retry, "open", NoData), Seen("open", retry, "unverified", NoData)>>,
                            at + 2, "open", "None")
             ELSE Connected(<<Seen("fail", retry, "open", NoData), Seen("fail", retry, "unverified", NoData)>>,
                            at + 2, "closed", next)
        ELSE LET failed == IF opened = "ok"
                           THEN <<Seen("open", retry, "verified", NoData), Seen("fail", retry, "handshake", NoData)>>
                           ELSE <<Seen("fail", retry, "open", NoData)>>
             IN  IF retry = 1
                 THEN Connected(failed, at + Len(failed), "closed", "returns ConnectionError")
                 ELSE LET again == _handle_connect(registry, allow, net, at + Len(failed), retry - 1)
                      IN  Connected(failed \o again.items, again.at, again.websocket,
                                    IF again.result = "returns ConnectionError" THEN "raises ConnectionError"
                                    ELSE again.result)

\* _set_variable(retry): send_packet, which cannot succeed on a WebSocket that
\* is not connected; a ConnectionError is raised again; after another
\* Exception a ConnectionError is raised when reconnect is off or retry is
\* 1, else _handle_connect() and _set_variable(retry - 1)
RECURSIVE _set_variable(_, _, _, _, _, _, _)
_set_variable(registry, allow, again, socket, net, at, retry) ==
    LET sent == IF socket # "open" /\ outcome(net, at) = "ok" THEN "Exception" ELSE outcome(net, at)
    IN  IF sent = "ok"
        THEN Connected(<<Seen("send", retry, "set", NoData)>>, at + 1, "open", "None")
        ELSE IF sent = "ConnectionError"
        THEN Connected(<<Seen("fail", retry, "set", NoData)>>, at + 1, "closed", "raises ConnectionError")
        ELSE IF ~again \/ retry = 1
        THEN Connected(<<Seen("fail", retry, "set", NoData)>>, at + 1, "closed", "raises ConnectionError")
        ELSE LET connection == _handle_connect(registry, allow, net, at + 1, RETRY)
             IN  IF raises(connection.result)
                 THEN Connected(<<Seen("fail", retry, "set", NoData)>> \o connection.items,
                                connection.at, connection.websocket, connection.result)
                 ELSE LET rest == _set_variable(registry, allow, again, connection.websocket, net,
                                                connection.at, retry - 1)
                      IN  Connected(<<Seen("fail", retry, "set", NoData)>> \o connection.items \o rest.items,
                                    rest.at, rest.websocket, rest.result)

\* the top-level calls that use the network so far
connections == Cardinality({p \in 1..Len(trace) : trace[p].kind = "call"})

\* CloudConnection(...) with connect=True: _handle_connect(); what it returns
\* is dropped, and the reader thread is started
CloudConnection(net) ==
    /\ websocket = "None"
    /\ \E connection \in {_handle_connect(events, allow_no_certificate, net, 1, RETRY)} :
        /\ trace' = trace \o <<Seen("call", 0, "__init__", NoData)>> \o connection.items
                          \o <<Seen("end", 0, IF raises(connection.result) THEN connection.result ELSE "None", NoData)>>
        /\ websocket' = connection.websocket
        /\ receive_at' = IF raises(connection.result) THEN "none" ELSE "prepare"
    /\ UNCHANGED <<events, values, wait_until, websocket_sent, allow_no_certificate, reconnect>>
    /\ UNCHANGED <<reader_vars, packet_size, thread_running, is_turbowarp, writes>>
    /\ UNCHANGED <<requests, error_handler, current_client, main_loop, workers>>
    /\ UNCHANGED <<thread_vars, now, ghost_vars>>

\* receive_data or _prepare_handle_connection: recv raises
\* WebSocketConnectionClosedException; _handle_connect(), whose result is
\* dropped, and _prepare_handle_connection()
receive_closed(net) ==
    /\ thread_running
    /\ receive_at \in {"prepare", "receive"}
    /\ \E connection \in {_handle_connect(events, allow_no_certificate, net, 1, RETRY)} :
        /\ trace' = trace \o <<Seen("call", 0, "receive_data", NoData)>> \o connection.items
                          \o <<Seen("end", 0, IF raises(connection.result) THEN connection.result ELSE "None", NoData)>>
        /\ websocket' = connection.websocket
        /\ receive_at' = IF raises(connection.result) THEN "dead" ELSE "prepare"
    /\ UNCHANGED <<events, values, wait_until, websocket_sent, allow_no_certificate, reconnect>>
    /\ UNCHANGED <<reader_vars, packet_size, thread_running, is_turbowarp, writes>>
    /\ UNCHANGED <<requests, error_handler, current_client, main_loop, workers>>
    /\ UNCHANGED <<thread_vars, now, ghost_vars>>

(* ------------------------------------------------------------------ *)
(* The write pacer (CloudConnection.set_variable)                      *)
(* ------------------------------------------------------------------ *)

\* the 0.1 s of self.wait_until = time.time() + 0.1, in ticks
PACING_DELAY == 10

\* the ticks of the clock in one run of the write pacer
MaxElapsed == 11

\* the calls of set_variable in one run
MaxSets == 3

\* time passes while threads sleep and write
Elapse ==
    /\ now < T0 + MaxElapsed
    /\ now' = now + 1
    /\ UNCHANGED <<reader_vars, cloud_vars, thread_vars, ghost_vars>>

\* set_variable, for a value verify_value accepts: the argument of
\* time.sleep(max(0, self.wait_until - time.time())) is computed and the
\* thread sleeps until that time at least
set_variable_call(t) ==
    /\ Begins(t, "set_variable", "set_variable_stamp", None, now + Max(0, wait_until - now), 0)
    /\ UNCHANGED <<reader_vars, cloud_vars, accepting, accept_log, stop_result, now, ghost_vars>>

\* set_variable: the sleep is over; self.wait_until = time.time() + 0.1
set_variable_stamp(t) ==
    /\ pc[t] = "set_variable_stamp"
    /\ now >= call[t].endtime
    /\ wait_until' = now + PACING_DELAY
    /\ Goes(t, "set_variable_send")
    /\ UNCHANGED <<reader_vars, packet_size, thread_running, is_turbowarp, writes, websocket_sent, connect_vars, bus_vars, handler_vars>>
    /\ UNCHANGED <<accepting, accept_log, stop_result, now, ghost_vars>>

\* set_variable: _set_variable(retry=10) writes the "set" packet to the
\* WebSocket, reconnecting when the write fails; no handler is registered for
\* the "set" event that follows
set_variable_send(t, net) ==
    /\ pc[t] = "set_variable_send"
    /\ \E written \in {_set_variable(events, allow_no_certificate, reconnect, websocket, net, 1, SET_RETRY)} :
        /\ trace' = trace \o <<Seen("call", t, "set_variable", NoData)>> \o written.items
                          \o <<Seen("end", t, written.result, NoData)>>
        /\ websocket' = written.websocket
        /\ websocket_sent' = IF written.result = "None"
                             THEN Append(websocket_sent, [thread |-> t, time |-> now])
                             ELSE websocket_sent
        /\ Ends(t, IF written.result = "None" THEN "return" ELSE written.result, <<>>)
    /\ UNCHANGED <<reader_vars, packet_size, thread_running, is_turbowarp, writes, wait_until, bus_vars>>
    /\ UNCHANGED <<allow_no_certificate, reconnect, requests, error_handler, current_client, main_loop, workers>>
    /\ UNCHANGED <<accepting, accept_log, stop_result, now, ghost_vars>>

\* set_variable called from several threads while time passes
NextPacing ==
    \/ \E t \in Threads : calls < MaxSets /\ set_variable_call(t)
    \/ \E t \in Threads : set_variable_stamp(t)
    \/ \E t \in Threads : set_variable_send(t, <<>>)
    \/ Elapse

SpecPacing == InitInsecure /\ [][NextPacing]_vars

(* ------------------------------------------------------------------ *)
(* A CloudConnection on a network that fails                           *)
(* ------------------------------------------------------------------ *)

\* the length of the enumerated outcomes of the network
MaxNet == 2

\* the calls that use the network in one run
MaxConnections == 2

\* k rounds of a write that fails and a connection that is made
RECURSIVE Cycles(_)
Cycles(k) == IF k = 0 THEN <<>> ELSE <<"Exception", "ok", "ok">> \o Cycles(k - 1)

\* what the network does to _handle_connect: every outcome of up to MaxNet
\* operations, and a handshake that fails three times
ConnectNets ==
    UNION {[1..k -> Outcomes \ {"ConnectionError"}] : k \in 0..MaxNet}
        \cup {<<"Exception", "Exception", "Exception">>,
              <<"ok", "Exception", "ok", "Exception", "ok", "Exception">>}

\* what the network does to _set_variable: the write returns, or fails in
\* up to SET_RETRY rounds, or fails before a connection that fails
WriteNets ==
    {Cycles(k) : k \in 0..SET_RETRY} \cup {<<"ConnectionError">>}
        \cup {<<"Exception">> \o net : net \in ConnectNets}

InitConnect ==
    /\ security = "None"
    /\ packet_size = AUTO
    /\ InitSocketState
    /\ NoRequestHandler
    /\ receive_at = "none"
    /\ websocket = "None"
    /\ allow_no_certificate \in BOOLEAN
    /\ reconnect \in BOOLEAN

NextConnect ==
    \/ \E net \in ConnectNets : CloudConnection(net)
    \/ \E does \in {"returns", "raises"} : receive_at # "none" /\ registrations = 0 /\ on("connect", does)
    \/ \E net \in ConnectNets : connections < MaxConnections /\ receive_closed(net)
    \/ \E t \in Threads :
           /\ receive_at # "none" /\ connections < MaxConnections
           /\ \A other \in Threads : pc[other] = "idle"
           /\ set_variable_call(t)
    \/ \E t \in Threads : set_variable_stamp(t)
    \/ \E t \in Threads, net \in WriteNets : set_variable_send(t, net)

SpecConnect == InitConnect /\ [][NextConnect]_vars

(* ------------------------------------------------------------------ *)
(* The codec as functions                                              *)
(* ------------------------------------------------------------------ *)

\* the length of the texts made of a few characters
MaxText == 3

\* the characters of the longer texts: the first and the last of the table,
\* letters, a digit and the stand-in for unknown characters
TextChars == {"a", "H", "i", "?", "0", "*"}

\* the sequences over S of length at most n
SeqUpTo(S, n) == UNION {[1..k -> S] : k \in 0..n}

\* texts over the table of the codec: every character by itself, and the
\* texts of up to MaxText characters of TextChars
CodecTexts == {<<chars[i]>> : i \in 1..Len(chars)} \cup SeqUpTo(TextChars, MaxText)

\* a thread calls CloudSocket._encode(data)
encode_call(t, data) ==
    /\ call[t].op = "none"
    /\ call' = [call EXCEPT ![t] = [NoCall EXCEPT !.op = "_encode", !.data = data,
                                                  !.result = "return", !.value = _encode(data)]]
    /\ UNCHANGED <<reader_vars, cloud_vars, accepting, pc, calls, accept_log, stop_result, now, ghost_vars>>

\* a thread calls CloudSocket._decode on what _encode has returned to it, or
\* on that without the first idx digits
decode_call(t, idx) ==
    /\ call[t].op = "_encode"
    /\ call' = [call EXCEPT ![t] = [@ EXCEPT !.op = "_decode", !.idx = idx,
                                            !.value = _decode(Drop(call[t].value, idx))]]
    /\ UNCHANGED <<reader_vars, cloud_vars, accepting, pc, calls, accept_log, stop_result, now, ghost_vars>>

\* the length of the digit strings
MaxDigits == 4

\* digit strings whose pairs are 00, the first and the last pair of the table,
\* pairs beyond the table, and strings of odd length
CodecDigits == SeqUpTo({"0", "1", "2", "9"}, MaxDigits)

\* a thread calls CloudSocket._decode(data) on a string of digits
decode_digits_call(t, data) ==
    /\ call[t].op = "none"
    /\ call' = [call EXCEPT ![t] = [NoCall EXCEPT !.op = "_decode digits", !.data = data,
                                                  !.result = "return", !.value = _decode(data)]]
    /\ UNCHANGED <<reader_vars, cloud_vars, accepting, pc, calls, accept_log, stop_result, now, ghost_vars>>

NextCodec ==
    \/ \E data \in CodecTexts : encode_call(1, data)
    \/ \E idx \in {0, 1} : decode_call(1, idx)
    \/ \E data \in CodecDigits : decode_digits_call(1, data)

SpecCodec == InitInsecure /\ [][NextCodec]_vars

(* ------------------------------------------------------------------ *)
(* The cipher as functions                                             *)
(* ------------------------------------------------------------------ *)

\* the length of the plaintexts; with the 15 characters of the end marker a
\* plaintext of two characters needs a second block of the keystream
MaxPlain == 2

\* the keys, the salts and the seeds of random.randrange(1000, 9999)
CipherKeys == {7, 123456}

CipherSalts == {0, 12, 345}

CipherSeeds == {1000, 9998}

\* the characters of the longer plaintexts: the first and the last of the
\* table, the ":" of the header and the last character of the end marker
PlainChars == {"a", "S", ":", "*"}

\* the plaintexts: every character of the table by itself, and the texts of
\* up to MaxPlain characters of PlainChars
Plaintexts == {<<chars[i]>> : i \in 1..Len(chars)} \cup SeqUpTo(PlainChars, MaxPlain)

\* a thread calls SymmetricEncryption(key).encrypt(data, salt), which draws seed
encrypt_call(t, key, data, salt, seed) ==
    /\ call[t].op = "none"
    /\ call' = [call EXCEPT ![t] = [op |-> "encrypt", key |-> key, data |-> data, salt |-> salt, seed |-> seed,
                                    result |-> "return", value |-> encrypt(key, data, salt, seed)]]
    /\ UNCHANGED <<reader_vars, cloud_vars, accepting, pc, calls, accept_log, stop_result, now, ghost_vars>>

\* a thread calls decrypt(data, salt) of the same SymmetricEncryption on
\* what encrypt has returned to it
decrypt_call(t, salt) ==
    /\ call[t].op = "encrypt"
    /\ \E decrypted \in {decrypt(call[t].key, call[t].value, salt)} :
           call' = [call EXCEPT ![t] = [op |-> "decrypt", key |-> call[t].key, data |-> call[t].data,
                                        salt |-> call[t].salt, seed |-> call[t].seed, encrypted |-> call[t].value,
                                        decrypt_salt |-> salt,
                                        result |-> IF decrypted.ok THEN "return" ELSE "ValueError",
                                        value |-> decrypted.text]]
    /\ UNCHANGED <<reader_vars, cloud_vars, accepting, pc, calls, accept_log, stop_result, now, ghost_vars>>

NextCipher ==
    \/ \E key \in CipherKeys, data \in Plaintexts, salt \in CipherSalts, seed \in CipherSeeds :
           encrypt_call(1, key, data, salt, seed)
    \/ \E salt \in CipherSalts : decrypt_call(1, salt)

SpecCipher == InitInsecure /\ [][NextCipher]_vars

(* ------------------------------------------------------------------ *)
(* The coercion of the arguments                                       *)
(* ------------------------------------------------------------------ *)

\* the number of positional arguments of a call
MaxArgs == 2

\* a parameter of a signature; kind is "KWPS", "MPS" or "MKW", annotation is
\* "int", "str", "empty", or "'int'" for an annotation that is still a string
Parameter(name, kind, annotation) == [name |-> name, kind |-> kind, annotation |-> annotation]

\* inspect.signature(SpecificRequestHandler(...)): the signature of __call__
CallSignature == <<Parameter("args", "MPS", "empty"), Parameter("kwargs", "MKW", "empty")>>

\* the signatures of the handlers
Signatures ==
    { <<Parameter("a", "KWPS", "int")>>,
      <<Parameter("a", "KWPS", "int"), Parameter("b", "KWPS", "str")>>,
      <<Parameter("a", "KWPS", "'int'"), Parameter("b", "KWPS", "empty")>>,
      <<Parameter("a", "KWPS", "str"), Parameter("args", "MPS", "empty"), Parameter("kwargs", "MKW", "empty")>> }

\* the values of the arguments: a str of digits, a str without digits, an int, None
CastValues == {Value("str", <<"1", "2">>), Value("str", <<"a", "b", "c">>), Value("int", <<"5">>), Value("None", <<>>)}

\* the keyword arguments of a call, in the order of the dict
CastKwargs == {<<>>} \cup {<<[kw |-> kw, value |-> value]>> : kw \in {"a", "b", "c"}, value \in CastValues}

\* (param.annotation if not param.annotation in (Any, signature.empty) else DO_NOTHING)(arg):
\* int(arg) raises ValueError for a str that is no number and TypeError for
\* None, str(arg) always returns, and a str is not callable
convert(annotation, arg) ==
    CASE annotation = "empty" -> [raised |-> "no", value |-> arg]
      [] annotation = "str" -> [raised |-> "no", value |-> Value("str", IF arg.type = "None" THEN <<"N", "o", "n", "e">> ELSE arg.text)]
      [] annotation = "int" ->
            IF arg.type = "int" THEN [raised |-> "no", value |-> arg]
            ELSE IF arg.type = "str" /\ IntParses(arg.text) THEN [raised |-> "no", value |-> Value("int", arg.text)]
            ELSE IF arg.type = "str" THEN [raised |-> "ValueError", value |-> arg]
            ELSE [raised |-> "TypeError", value |-> arg]
      [] OTHER -> [raised |-> "TypeError", value |-> arg]

\* the parameter called kw, or <<>> for the KeyError of signature.parameters[kw]
parameter_of(parameters, kw) ==
    LET found == {i \in 1..Len(parameters) : parameters[i].name = kw}
    IN  IF found = {} THEN <<>> ELSE <<parameters[CHOOSE i \in found : TRUE]>>

\* what one turn of the first loop of type_casting raises: the TypeError of
\* a value given twice, or what the conversion raises and the handler
\* "except TypeError: pass" lets through
positional_raises(parameters, args, kwargs, idx) ==
    IF parameters[idx].kind # "KWPS" THEN "no"
    ELSE IF \E k \in 1..Len(kwargs) : kwargs[k].kw = parameters[idx].name THEN "TypeError"
    ELSE IF convert(parameters[idx].annotation, args[idx]).raised = "TypeError" THEN "no"
    ELSE convert(parameters[idx].annotation, args[idx]).raised

\* the turn of the second loop of type_casting at which it breaks, or
\* Len(kwargs) + 1: a keyword that is no parameter, or the **kwargs parameter
last_idx(parameters, kwargs) ==
    LET stops == {k \in 1..Len(kwargs) : \/ parameter_of(parameters, kwargs[k].kw) = <<>>
                                         \/ parameter_of(parameters, kwargs[k].kw)[1].kind = "MKW"}
    IN  IF stops = {} THEN Len(kwargs) + 1 ELSE CHOOSE k \in stops : \A other \in stops : k <= other

\* what one turn of the second loop of type_casting raises
keyword_raises(parameters, kwargs, k) ==
    LET param == parameter_of(parameters, kwargs[k].kw)[1]
    IN  IF param.kind # "KWPS" \/ convert(param.annotation, kwargs[k].value).raised = "TypeError" THEN "no"
        ELSE convert(param.annotation, kwargs[k].value).raised

\* type_casting(func=..., signature=..., args=..., kwargs=...), for *args and
\* **kwargs parameters without an annotation, which leave their values as
\* they are: the arguments it returns, or the first exception it raises
type_casting(parameters, args, kwargs) ==
    LET paired == IF Len(parameters) < Len(args) THEN Len(parameters) ELSE Len(args)
        failing == {idx \in 1..paired : positional_raises(parameters, args, kwargs, idx) # "no"}
        turns == last_idx(parameters, kwargs) - 1
        failing_kw == {k \in 1..turns : keyword_raises(parameters, kwargs, k) # "no"}
        arg_of(idx) == IF idx <= paired /\ parameters[idx].kind = "KWPS"
                                        /\ convert(parameters[idx].annotation, args[idx]).raised = "no"
                       THEN convert(parameters[idx].annotation, args[idx]).value ELSE args[idx]
        kwarg_of(k) == IF k <= turns /\ parameter_of(parameters, kwargs[k].kw)[1].kind = "KWPS"
                                     /\ convert(parameter_of(parameters, kwargs[k].kw)[1].annotation, kwargs[k].value).raised = "no"
                       THEN [kw |-> kwargs[k].kw,
                             value |-> convert(parameter_of(parameters, kwargs[k].kw)[1].annotation, kwargs[k].value).value]
                       ELSE kwargs[k]
    IN  IF failing # {}
        THEN [raised |-> positional_raises(parameters, args, kwargs, CHOOSE idx \in failing : \A other \in failing : idx <= other),
              args |-> args, kwargs |-> kwargs]
        ELSE IF failing_kw # {}
        THEN [raised |-> keyword_raises(parameters, kwargs, CHOOSE k \in failing_kw : \A other \in failing_kw : k <= other),
              args |-> args, kwargs |-> kwargs]
        ELSE [raised |-> "no", args |-> [idx \in 1..Len(args) |-> arg_of(idx)],
              kwargs |-> [k \in 1..Len(kwargs) |-> kwarg_of(k)]]

\* what a call with coerced arguments has done: invoked is whether
\* func(*args, **kwargs) was reached, passed the arguments it was given
Coerced(op, parameters, args, kwargs, cast) ==
    [op |-> op, parameters |-> parameters, args |-> args, kwargs |-> kwargs,
     result |-> IF cast.raised = "no" THEN "return" ELSE cast.raised,
     invoked |-> cast.raised = "no", passed |-> [args |-> cast.args, kwargs |-> cast.kwargs]]

\* a thread calls type_cast(func)(*args, **kwargs), for a func that returns
type_cast(t, parameters, args, kwargs) ==
    /\ call[t].op = "none"
    /\ call' = [call EXCEPT ![t] = Coerced("type_cast", parameters, args, kwargs, type_casting(parameters, args, kwargs))]
    /\ UNCHANGED <<reader_vars, cloud_vars, accepting, pc, calls, accept_log, stop_result, now, ghost_vars>>

\* a thread calls dispatch_request for a handler with these parameters: the
\* signature it gives to type_casting is the one of the SpecificRequestHandler
dispatch_request_casting(t, parameters, args, kwargs) ==
    /\ call[t].op = "none"
    /\ call' = [call EXCEPT ![t] = Coerced("dispatch_request", parameters, args, kwargs, type_casting(CallSignature, args, kwargs))]
    /\ UNCHANGED <<reader_vars, cloud_vars, accepting, pc, calls, accept_log, stop_result, now, ghost_vars>>

NextCast ==
    \/ \E parameters \in Signatures, args \in SeqUpTo(CastValues, MaxArgs), kwargs \in CastKwargs :
           type_cast(1, parameters, args, kwargs)
    \/ \E parameters \in Signatures, args \in SeqUpTo(CastValues, MaxArgs), kwargs \in CastKwargs :
           dispatch_request_casting(1, parameters, args, kwargs)

SpecCast == InitInsecure /\ [][NextCast]_vars

(* ------------------------------------------------------------------ *)
(* Framing                                                             *)
(* ------------------------------------------------------------------ *)

\* the reader has just handled an event
Handled == packets' = packets + 1

\* C1: a message is put on the queue of a client entry only by the handling
\* of a packet of that client whose value has no '-'; the handling of a packet
\* with a '-' enqueues nothing, and when the packet is a message part it
\* changes nothing of the client entries but the partial buffer of its client,
\* which it extends.
C1_MessageOnlyAfterTerminalPacket ==
    [][ /\ \A c \in 1..Len(conns') : c > Len(conns) => conns'[c].new_msgs = <<>>
        /\ \A c \in 1..Len(conns) :
              Len(conns'[c].new_msgs) > Len(conns[c].new_msgs)
                  => /\ Handled
                     /\ ~PacketOf[last'.value].minus
                     /\ PacketOf[last'.value].client = conns[c].client_id
        /\ (Handled /\ PacketOf[last'.value].minus)
              => \A c \in 1..Len(conns) : conns'[c].new_msgs = conns[c].new_msgs
        /\ (Handled /\ PacketOf[last'.value].minus /\ last'.branch \in {"non_secure", "secure"})
              => /\ Len(conns') = Len(conns) /\ clients' = clients /\ new_clients' = new_clients
                 /\ \A c \in 1..Len(conns) :
                        \/ conns'[c] = conns[c]
                        \/ /\ c = clients[PacketOf[last'.value].client]
                           /\ conns'[c] = [conns[c] EXCEPT !.current_msg = conns'[c].current_msg]
                           /\ Take(conns'[c].current_msg, Len(conns[c].current_msg)) = conns[c].current_msg
      ]_vars

\* a secure client has received one message made of a continuation part and a
\* terminal part
C1_Witness ==
    \E c \in 1..Len(conns) : conns[c].secure /\ conns[c].new_msgs = << <<"x", "z">> >>

C3_RecvInOrderExactlyOnce ==
    \A c \in 1..Len(conns) : history[c].returned \o conns[c].new_msgs = history[c].enqueued

\* the two threads have each received one of two different messages of one
\* entry, in the order of arrival
C3_Witness ==
    \E c \in 1..Len(conns) :
        /\ history[c].returned = << <<"a">>, <<"H", "i">> >>
        /\ \A t \in Threads : pc[t] = "idle" /\ call[t].op = "recv" /\ call[t].result = "return" /\ call[t].entry = c
        /\ call[1].value # call[2].value

(* ------------------------------------------------------------------ *)
(* Salts and key fragments                                             *)
(* ------------------------------------------------------------------ *)

C5_KeyPartsBounded ==
    [][ /\ Len(key_parts') <= KEY_PARTS_CAP
        /\ key_parts' # key_parts =>
              \E k \in 0..Len(key_parts) :
                  /\ key_parts' = Drop(key_parts, k) \o
                        <<[id |-> Take(PacketOf[last'.value].msg_data, KEY_PART_ID_DIGITS),
                           part |-> Drop(PacketOf[last'.value].msg_data, KEY_PART_ID_DIGITS)]>>
                  /\ k > 0 => Len(key_parts') = KEY_PARTS_CAP
      ]_vars

\* the table is full and its first fragments have been evicted
C5_Witness ==
    /\ Len(key_parts) = KEY_PARTS_CAP
    /\ packets > KEY_PARTS_CAP
    /\ key_parts[1].id # FragmentId(0)
    /\ last.branch = "key_fragment" /\ last.outcome = "return"

(* ------------------------------------------------------------------ *)
(* accept                                                              *)
(* ------------------------------------------------------------------ *)

C7_NoLostWakeUp ==
    \A t \in Threads : ~(pc[t] = "accept_wait" /\ ~accepted /\ new_clients # <<>> /\ BeforeDeadline(t))

(* ------------------------------------------------------------------ *)
(* stop and send                                                       *)
(* ------------------------------------------------------------------ *)

\* thread t waits on an event that is not set, with no deadline
WaitsForever(t) ==
    \/ pc[t] = "accept_wait" /\ ~accepted /\ call[t].endtime = None
    \/ pc[t] = "recv_wait" /\ ~conns[call[t].entry].received /\ call[t].endtime = None

\* C8: once a cascading RequestHandler.stop has ended, it has returned
\* without raising, the reader is stopped, and no thread waits in accept or in
\* recv_from_client on an event that is not set.
C8_StopReleasesWaiters ==
    (stop_result.result # "none" /\ stop_result.cascade_stop) =>
        /\ stop_result.result = "return"
        /\ ~thread_running
        /\ \A t \in Threads : ~WaitsForever(t)

\* the positions in writes of the writes of the call of thread t
WritesOf(t) == {i \in 1..Len(writes) : writes[i].call = call[t].id}

\* thread t has ended a send to a client that has an entry
SendEnded(t) == pc[t] = "idle" /\ call[t].op = "send" /\ call[t].result # "KeyError"

C10_SendWritesEveryPacket ==
    \A t \in Threads : (SendEnded(t) /\ ~conns[call[t].entry].secure) =>
        LET sent == SelectSeq(writes, LAMBDA w : w.call = call[t].id)
            n == Len(call[t].packets)
        IN  /\ call[t].result = "return"
            /\ n >= 1
            /\ Concat(call[t].packets) = _encode(call[t].data)
            /\ Len(sent) = n
            /\ \A i \in 1..Len(sent) :
                  /\ Len(call[t].packets[i]) <= get_packet_size(packet_size, is_turbowarp)
                  /\ sent[i].var = (IF i < n THEN ((i - 1) % 4) + 1 ELSE sent[i].var)
                  /\ sent[i].var \in 1..4
                  /\ \E rand \in Nonces :
                        sent[i].value = write_value(i < n, call[t].packets[i], conns[call[t].entry].client_id, rand, i - 1)

C12_WritesPaced ==
    \A i \in 1..(Len(websocket_sent) - 1) :
        websocket_sent[i + 1].time - websocket_sent[i].time >= PACING_DELAY

(* ------------------------------------------------------------------ *)
(* Requests                                                            *)
(* ------------------------------------------------------------------ *)

\* the positions of the trace at which start has received a message
Received == {p \in 1..Len(trace) : trace[p].kind = "recv"}

\* what the thread of start has done with the message received at p
Round(p) ==
    LET later == {q \in Received : q > p}
    IN  SelectSeq(SubSeq(trace, p + 1, IF later = {} THEN Len(trace) ELSE Least(later) - 1),
                  LAMBDA it : it.thread = 0)

\* the items of the given kinds
Of(items, kinds) == SelectSeq(items, LAMBDA it : it.kind \in kinds)

\* the names of the sub-requests of the message received at p, in textual
\* order; <<>> for a message process_request cannot parse
Names(p) ==
    LET parsed == parse_sub_requests(requests, trace[p].text)
    IN  [i \in 1..Len(parsed.sub_requests) |-> parsed.sub_requests[i].name]

\* the handler of the responding (last) sub-request of the message received at p
Responding(p) == requests[Names(p)[Len(Names(p))]]

\* a send with which text reached the client: client.send(text) returned
Reached(it, text) == it.kind = "send" /\ it.text = text /\ it.what = "no"

\* C13: when a message of several ';'-separated sub-requests, none of them
\* for a threaded handler, has been processed, the handlers were run in
\* textual order, each call ended before the next began, and exactly one
\* response was sent to the client: the value the last handler returned.
C13_SequentialOneResponse ==
    \A p \in Received :
        (Len(Names(p)) >= 2 /\ \A i \in 1..Len(Names(p)) : ~requests[Names(p)[i]].thread) =>
            /\ [i \in 1..Len(Of(Round(p), {"dispatch"})) |-> Of(Round(p), {"dispatch"})[i].name] = Names(p)
            /\ \A i \in 1..Len(Round(p)) :
                   Round(p)[i].kind = "call" =>
                       /\ i < Len(Round(p))
                       /\ Round(p)[i + 1].kind \in {"return", "raise"}
                       /\ Round(p)[i + 1].name = Round(p)[i].name
            /\ Responding(p).function = "returns" =>
                   /\ Len(Of(Round(p), {"send"})) = 1
                   /\ Reached(Of(Round(p), {"send"})[1], ReturnValue(Responding(p).name))

\* the message received at p ends with a sub-request for a handler that does
\* what function says and is not run in a worker
RespondingDoes(p, function) ==
    Names(p) # <<>> /\ ~Responding(p).thread /\ Responding(p).function = function

\* C14: when a message has been processed whose responding (last)
\* sub-request has a handler that raises ErrorMessage, the text of the
\* ErrorMessage has been sent to the client as the response, no
\* error_in_request event has been emitted for that sub-request and the
\* on_error hook has not been invoked for it.
C14_ErrorMessageIsResponse ==
    \A p \in Received :
        RespondingDoes(p, "ErrorMessage") =>
            /\ \E i \in 1..Len(Round(p)) : Reached(Round(p)[i], NOPE)
            /\ \A i \in 1..Len(Round(p)) :
                   Round(p)[i].name = Responding(p).name => Round(p)[i].kind \notin {"emit", "hook"}

\* the message received at p has a sub-request in the call form name(...) for
\* a handler registered with allow_python_syntax=False
ForbiddenCallForm(p) ==
    \E i \in 1..Len(split(trace[p].text, ";")) :
        LET raw == strip(split(trace[p].text, ";")[i])
        IN  /\ using_python_syntax(raw)
            /\ word_match(raw) \in DOMAIN requests
            /\ ~requests[word_match(raw)].allow_python_syntax

\* C15: when a message has been processed that has a sub-request in the call
\* form name(...) for a handler registered with allow_python_syntax=false,
\* the response "The command syntax was wrong." has been sent to the client,
\* an invalid_syntax event has been emitted and no handler has been invoked.
C15_ForbiddenCallFormIsRefused ==
    \A p \in Received :
        ForbiddenCallForm(p) =>
            /\ \E i \in 1..Len(Round(p)) : Reached(Round(p)[i], SYNTAX_WRONG)
            /\ \E i \in 1..Len(Round(p)) : Round(p)[i].kind = "emit" /\ Round(p)[i].what = "invalid_syntax"
            /\ Of(Round(p), {"call"}) = <<>>

\* C16: when the handler of a responding sub-request has raised an exception
\* other than ErrorMessage and its execution has ended, the response
\* "Something went wrong." has been sent to the client, with or without an
\* on_error hook, in the thread of start and in a worker.
C16_HandlerErrorIsAnswered ==
    /\ \A p \in Received :
           RespondingDoes(p, "KeyError") => \E i \in 1..Len(Round(p)) : Reached(Round(p)[i], WENT_WRONG)
    /\ \A k \in 1..Len(workers) :
           (workers[k].pc = "ended" /\ workers[k].response /\ requests[workers[k].name].function = "KeyError") =>
               \E i \in 1..Len(trace) : trace[i].client = workers[k].client /\ Reached(trace[i], WENT_WRONG)

\* the positions of the trace at which a request is dispatched: to
\* execute_request in the thread of start, or to a worker
Dispatched == {d \in 1..Len(trace) : trace[d].kind \in {"dispatch", "start"}}

\* what execute_request has done for the request dispatched at d
Execution(d) ==
    LET later == {q \in (d + 1)..Len(trace) : trace[q].kind \in {"dispatch", "recv"}}
    IN  IF trace[d].kind = "start"
        THEN SelectSeq(SubSeq(trace, d + 1, Len(trace)), LAMBDA it : it.thread = trace[d].thread)
        ELSE SelectSeq(SubSeq(trace, d + 1, IF later = {} THEN Len(trace) ELSE Least(later) - 1),
                       LAMBDA it : it.thread = 0 /\ it.name = trace[d].name)

\* the execution of the request dispatched at d has ended
Executed(d) == trace[d].kind = "dispatch" \/ workers[trace[d].thread].pc = "ended"

\* the execution reports the exception: an error_in_request event and a warning
Surfaced(items) ==
    /\ \E i \in 1..Len(items) : items[i].kind = "emit" /\ items[i].what = "error_in_request"
    /\ \E i \in 1..Len(items) : items[i].kind = "warn"

\* C17: for one dispatched request the on_error hook is invoked at most once,
\* on the first exception of the handler that is no ErrorMessage; when the
\* hook retries and the rerun raises again, the hook is not invoked again and
\* the failure is surfaced as a warning and an error_in_request event; without
\* a hook the exception is surfaced as a warning and an error_in_request event.
C17_HookAtMostOnce ==
    \A d \in Dispatched :
        /\ Len(Of(Execution(d), {"hook"})) <= 1
        /\ (Executed(d) /\ requests[trace[d].name].function = "KeyError") =>
               /\ error_handler # "None" =>
                      /\ Len(Of(Execution(d), {"hook"})) = 1
                      /\ Execution(d)[2].kind = "raise" /\ Execution(d)[3].kind = "hook"
               /\ error_handler = "retries" =>
                      /\ Len(Of(Execution(d), {"raise"})) = 2
                      /\ Surfaced(Execution(d))
               /\ error_handler = "None" =>
                      /\ Of(Execution(d), {"hook"}) = <<>>
                      /\ Surfaced(Execution(d))
        /\ (Executed(d) /\ requests[trace[d].name].function = "ErrorMessage") => Of(Execution(d), {"hook"}) = <<>>

\* a hook that retries has been invoked for a handler that raised, in the
\* thread of start and in a worker, and both reruns have raised again
C17_Witness ==
    /\ error_handler = "retries"
    /\ \E d \in Dispatched :
           trace[d].kind = "dispatch" /\ Len(Of(Execution(d), {"raise"})) = 2 /\ Len(Of(Execution(d), {"hook"})) = 1
    /\ \E d \in Dispatched :
           trace[d].kind = "start" /\ Executed(d) /\ Len(Of(Execution(d), {"raise"})) = 2
               /\ Len(Of(Execution(d), {"hook"})) = 1

\* C18: a handler that was registered with thread=true, by add_request, by
\* request(func, thread=True) or by the decorator request(name=...,
\* thread=True)(func), is recorded with thread=true; each request for a
\* handler recorded with thread=true is started in a worker of its own; and a
\* worker whose handler has returned has sent the return value to the client.
C18_ThreadedHandlerRunsInWorker ==
    /\ \A i \in 1..Len(trace) :
           (trace[i].kind = "register" /\ trace[i].flag) => requests[trace[i].name].thread
    /\ \A d \in Dispatched :
           requests[trace[d].name].thread =>
               /\ trace[d].kind = "start"
               /\ \A e \in Dispatched \ {d} : trace[e].thread # trace[d].thread
    /\ \A k \in 1..Len(workers) :
           (workers[k].pc = "ended" /\ workers[k].response /\ requests[workers[k].name].function = "returns") =>
               \E i \in 1..Len(trace) :
                   trace[i].thread = k /\ trace[i].client = workers[k].client
                       /\ Reached(trace[i], ReturnValue(workers[k].name))

\* a request has failed: it did not parse or named no handler, its handler
\* raised, or sending its response raised
Failed ==
    \E i \in 1..Len(trace) :
        trace[i].kind = "emit" /\ trace[i].what \in {"invalid_syntax", "error_in_request", "uncaught_error"}

\* the loop of start has taken every message the reader has put into the
\* queue of an entry
Drained == \A c \in 1..Len(conns) : conns[c].new_msgs = <<>> /\ history[c].returned = history[c].enqueued

\* C19: the loop of start never ends because of a failure of a request, and
\* once a request has failed (it did not parse, it named no handler, its
\* handler raised, or sending the response raised) every message the reader
\* has put or puts into the queue of a client, the same or another, is
\* eventually taken by the loop and processed.
C19_LoopSurvivesFailures ==
    /\ [](main_loop.pc # "dead")
    /\ Failed ~> Drained

\* every request of both clients has been processed, each one failed, and
\* after the first failure the loop has processed a message of the same
\* client and a message of the other client
C19_Witness ==
    /\ main_loop.pc \in {"wait", "recv"}
    /\ \A m \in LoopMessages :
           \E p \in Received :
               /\ trace[p].text = m.text /\ conns[trace[p].client].client_id = m.client
               /\ \E i \in 1..Len(Round(p)) : Round(p)[i].kind = "emit" /\ Round(p)[i].what = "uncaught_error"
    /\ \E p, q, r \in Received :
           /\ p < q /\ p < r
           /\ trace[p].client = trace[q].client /\ trace[p].client # trace[r].client
           /\ \E i \in 1..Len(Round(p)) : Round(p)[i].kind = "emit" /\ Round(p)[i].what = "uncaught_error"

(* ------------------------------------------------------------------ *)
(* The event bus                                                       *)
(* ------------------------------------------------------------------ *)

\* the lines for which the reader has emitted an event
Lines == {p \in 1..Len(trace) : trace[p].kind = "line" /\ \E f \in 1..p : trace[f].kind = "frame" /\ trace[f].event # "first"
                                    /\ \A q \in (f + 1)..p : trace[q].kind # "frame"}

\* what the bus has done with the event of the line at p
Dispatch(p) ==
    LET later == {q \in (p + 1)..Len(trace) : trace[q].kind \in {"line", "frame", "on"}}
    IN  SubSeq(trace, p + 1, IF later = {} THEN Len(trace) ELSE Least(later) - 1)

\* the handlers that were registered for event when the line at p was read,
\* in the order of their registration
RegisteredFor(p, event) ==
    LET ons == SelectSeq(SubSeq(trace, 1, p), LAMBDA it : it.kind = "on" /\ it.event = event)
    IN  [k \in 1..Len(ons) |-> ons[k].n]

\* whether the handler with this id raises
Raises(id) == \E e \in DOMAIN events : \E k \in 1..Len(events[e]) : events[e][k].id = id /\ events[e][k].does = "raises"

FrameProcessed(p) ==
    \A k \in 1..trace[p].n :
        \E q \in (p + 1)..Len(trace) :
            /\ trace[q].kind = "line" /\ trace[q].n = k
            /\ \A r \in (p + 1)..q : trace[r].kind # "frame"

\* C21: the reader of a CloudConnection survives every error of a line: after
\* a frame with a line that is no JSON, that lacks a key or whose value cannot
\* be parsed, the reader is still running and has processed the lines of the
\* frames it took.
C21_ReaderSurvivesBadFrames ==
    /\ receive_at # "dead"
    /\ \A p \in 1..Len(trace) : trace[p].kind = "frame" /\ trace[p].event = "" => FrameProcessed(p)

(* ------------------------------------------------------------------ *)
(* The connection                                                      *)
(* ------------------------------------------------------------------ *)

\* the p-th entry of the trace starts a call of what
Calls(p, what) == trace[p].kind = "call" /\ trace[p].event \in what

\* the entry that ends the call started by the p-th entry
EndOf(p) == Least({q \in p..Len(trace) : trace[q].kind = "end"})

\* the entries of the call started by the p-th entry
Within(p) == p..EndOf(p)

\* C22: every successful open of the WebSocket, with a verified certificate or
\* without one, is followed by the handshake frame, and the handshake frame
\* that was sent is followed by the connect event.
C22_OpenThenHandshakeThenConnect ==
    \A p \in 1..Len(trace) :
        trace[p].kind = "open" =>
            \/ trace[p + 1].kind = "fail" /\ trace[p + 1].event = "handshake"
            \/ /\ trace[p + 1].kind = "send" /\ trace[p + 1].event = "handshake"
               /\ trace[p + 2].kind = "emit" /\ trace[p + 2].event = "connect"

\* C23: a call of _handle_connect by the constructor or by the reader makes
\* at most RETRY attempts, and when its last attempt failed, for a
\* certificate that cannot be verified too, it ends with a ConnectionError
\* raised to the caller.
C23_FailedConnectRaises ==
    \A p \in 1..Len(trace) :
        Calls(p, {"__init__", "receive_data"}) =>
            /\ Cardinality({q \in Within(p) : \/ trace[q].kind = "open" /\ trace[q].event = "verified"
                                              \/ trace[q].kind = "fail" /\ trace[q].event = "open"}) <= RETRY
            /\ trace[EndOf(p) - 1].kind = "fail" => trace[EndOf(p)].event = "raises ConnectionError"

\* C24: a call of set_variable whose write fails makes at most one cycle of
\* reconnecting and writing again before it raises ConnectionError, and with
\* reconnect off it raises ConnectionError without connecting.
C24_OneReconnectCycle ==
    \A p \in 1..Len(trace) :
        Calls(p, {"set_variable"}) =>
            /\ Cardinality({q \in Within(p) : trace[q].event = "set"}) <= 2
            /\ ~reconnect =>
                   /\ \A q \in Within(p) : trace[q].kind \notin {"open", "emit"} /\ trace[q].event # "open"
                   /\ trace[p + 1].kind = "fail" => trace[EndOf(p)].event = "raises ConnectionError"

(* ------------------------------------------------------------------ *)
(* The codec and the cipher                                            *)
(* ------------------------------------------------------------------ *)

\* thread t has decoded what _encode returned for a text, without its first idx digits
Decoded(t, idx) == call[t].op = "_decode" /\ call[t].idx = idx

\* thread t has encoded the text "Hi"
EncodedHi(t) == call[t].op = "_encode" /\ call[t].data = <<"H", "i">>

DecryptedWithSalt(t) == call[t].op = "decrypt" /\ call[t].decrypt_salt = call[t].salt

\* C26: for every key, salt and plaintext over the table, decrypt with the
\* salt of the encryption returns the plaintext from what encrypt returned,
\* whatever seed encrypt has put into the header.
C26_DecryptInvertsEncrypt ==
    \A t \in Threads :
        DecryptedWithSalt(t) => call[t].result = "return" /\ call[t].value = call[t].data

C26_Witness ==
    \E t \in Threads :
        /\ DecryptedWithSalt(t)
        /\ call[t].data = <<":", "*">> /\ call[t].seed = 9998 /\ call[t].salt = 345
        /\ call[t].value = <<":", "*">>
        /\ Drop(call[t].encrypted, 7) # call[t].data \o END_MARKER

(* ------------------------------------------------------------------ *)
(* The client table                                                    *)
(* ------------------------------------------------------------------ *)

\* the fragment ids a _safe_connect: frame refers to
Referenced(p) == batched(Drop(DropLast(p.msg_data, SALT_DIGITS), CONNECT_PREFIX_DIGITS), KEY_PART_ID_DIGITS)

\* every fragment p refers to is in the table
AllPresent(p) == \A i \in 1..Len(Referenced(p)) : has_key_part(key_parts, Referenced(p)[i])

\* the key recovered from the fragments p refers to
Recovered(p) == _decrypt_key(Concat([i \in 1..Len(Referenced(p)) |-> key_part_of(key_parts, Referenced(p)[i])]))

\* the decimal form of the recovered key starts or ends with the salt of p
Bound(p) ==
    /\ Recovered(p) # -1
    /\ \/ StartsWith(IntToStr(Recovered(p)), IntToStr(CarriedSalt(p)))
       \/ EndsWith(IntToStr(Recovered(p)), IntToStr(CarriedSalt(p)))

\* the reader has just handled a _safe_connect: frame
SafeConnectHandled ==
    /\ Handled
    /\ last'.name = FROM_CLIENT
    /\ PacketOf[last'.value].msg_type = 1 /\ PacketOf[last'.value].dotted
    /\ PacketOf[last'.value].is_safe_connect

\* C28: the handling of a _safe_connect: frame creates an entry, a secure one
\* with the recovered key, only if the socket has security, every fragment the
\* frame refers to is in the table and the decimal form of the recovered key
\* starts or ends with the salt; otherwise the client table and new_clients
\* stay as they are.
C28_SafeConnectNeedsBoundKey ==
    [][ SafeConnectHandled =>
          LET p == PacketOf[last'.value]
              granted == security # "None" /\ AllPresent(p) /\ Bound(p)
          IN  /\ conns' # conns =>
                    /\ granted
                    /\ Len(conns') = Len(conns) + 1 /\ SubSeq(conns', 1, Len(conns)) = conns
                    /\ conns'[Len(conns')].secure
                    /\ conns'[Len(conns')].client_id = p.client
                    /\ conns'[Len(conns')].key = Recovered(p)
                    /\ clients'[p.client] = Len(conns')
                    /\ new_clients' = Append(new_clients, Len(conns'))
              /\ ~granted => conns' = conns /\ clients' = clients /\ new_clients' = new_clients
      ]_vars

\* a secure entry has been created for the key that ends with the salt
C28_Witness ==
    /\ last.branch = "safe_connect" /\ last.outcome = "return"
    /\ conns # <<>> /\ conns[Len(conns)].secure /\ conns[Len(conns)].key = SessionKey(T0 + 1)
    /\ new_clients # <<>> /\ new_clients[Len(new_clients)] = Len(conns)
    /\ accepted_salt = T0 + 1

\* C27: an entry created for a client id stays in the client table as the
\* entry of that id: no packet removes it or puts another entry in its place,
\* so the messages queued in it and the message it is assembling are kept.
C27_EntryStays ==
    \A entry \in 1..Len(conns) :
        conns[entry].client_id \in DOMAIN clients /\ clients[conns[entry].client_id] = entry

(* ------------------------------------------------------------------ *)
(* The coercion of the arguments                                       *)
(* ------------------------------------------------------------------ *)

\* the positional arguments of the call of thread t to which the annotation
\* of their parameter cannot be applied
FailingArgs(t) ==
    {idx \in 1..Len(call[t].args) :
        /\ idx <= Len(call[t].parameters) /\ call[t].parameters[idx].kind = "KWPS"
        /\ convert(call[t].parameters[idx].annotation, call[t].args[idx]).raised # "no"}

\* the keyword arguments of the call of thread t to which the annotation of
\* their parameter cannot be applied
FailingKwargs(t) ==
    {k \in 1..Len(call[t].kwargs) :
        /\ parameter_of(call[t].parameters, call[t].kwargs[k].kw) # <<>>
        /\ parameter_of(call[t].parameters, call[t].kwargs[k].kw)[1].kind = "KWPS"
        /\ convert(parameter_of(call[t].parameters, call[t].kwargs[k].kw)[1].annotation, call[t].kwargs[k].value).raised # "no"}

\* no parameter of the call of thread t has a positional and a keyword value
GivenOnce(t) ==
    \A idx \in 1..Len(call[t].args), k \in 1..Len(call[t].kwargs) :
        idx <= Len(call[t].parameters) => call[t].parameters[idx].name # call[t].kwargs[k].kw

\* C29: when the annotation of a parameter of the handler cannot be applied
\* to the positional or keyword value supplied for it (int to a str that is
\* no number, say), the failure is skipped: the handler is still invoked, and
\* it is given the original value.
C29_FailedCoercionIsSkipped ==
    \A t \in Threads :
        /\ call[t].op \in {"type_cast", "dispatch_request"}
        /\ GivenOnce(t)
        /\ FailingArgs(t) \cup FailingKwargs(t) # {}
        => /\ call[t].invoked
           /\ \A idx \in FailingArgs(t) : call[t].passed.args[idx] = call[t].args[idx]
           /\ \A k \in FailingKwargs(t) : call[t].passed.kwargs[k] = call[t].kwargs[k]

(* ------------------------------------------------------------------ *)
(* Key fragments                                                       *)
(* ------------------------------------------------------------------ *)

\* the reader has just handled a key fragment whose id was in the table
KnownFragmentHandled ==
    /\ Handled
    /\ last'.name = FROM_CLIENT
    /\ PacketOf[last'.value].msg_type = 0
    /\ has_key_part(key_parts, Take(PacketOf[last'.value].msg_data, KEY_PART_ID_DIGITS))

\* C30: a key fragment packet whose five-digit id is in the fragment table is
\* rejected and the table stays as it was: the part stored under the id is
\* not overwritten, and no entry is evicted.
C30_KnownFragmentRejected ==
    [][ KnownFragmentHandled =>
          /\ last'.branch = "key_fragment" /\ last'.outcome = "assert"
          /\ key_parts' = key_parts
      ]_vars

\* a fragment with another part under the id of the oldest entry of the full
\* table has been rejected
C30_Witness ==
    /\ Len(key_parts) = KEY_PARTS_CAP
    /\ last.branch = "key_fragment" /\ last.outcome = "assert"
    /\ Take(PacketOf[last.value].msg_data, KEY_PART_ID_DIGITS) = key_parts[1].id
    /\ Drop(PacketOf[last.value].msg_data, KEY_PART_ID_DIGITS) # key_parts[1].part

(* ------------------------------------------------------------------ *)
(* Decoding digits                                                     *)
(* ------------------------------------------------------------------ *)

\* the values of the pairs of a digit string, from the left
PairValues(data) == [i \in 1..(Len(data) \div 2) |-> 10 * DigitVal(data[2 * i - 1]) + DigitVal(data[2 * i])]

\* the characters of the pairs whose value is a position of the table
InRangeChars(data) ==
    LET kept == SelectSeq(PairValues(data), LAMBDA v : v >= 1 /\ v <= Len(chars))
    IN  [i \in 1..Len(kept) |-> chars[kept[i]]]

\* C31: _decode takes the digits in pairs from the left, returns (it never
\* raises), and what it returns are the characters of the pairs 01..N in
\* order: every pair outside 01..N, the pair 00 included, is dropped.
C31_DecodeDropsOutOfRange ==
    \A t \in Threads :
        call[t].op = "_decode digits" => call[t].result = "return" /\ call[t].value = InRangeChars(call[t].data)

(* ------------------------------------------------------------------ *)
(* The salts of the packets sent                                       *)
(* ------------------------------------------------------------------ *)

\* the salt a written value carries: the SALT_DIGITS digits before the "."
WrittenSalt(value) == DigitsValue(TakeLast(SplitHead(value, "."), SALT_DIGITS))

Running == main_loop.pc \in {"wait", "recv"}

\* the entry c is in the sequence of entries
Among(c, entries) == \E i \in 1..Len(entries) : entries[i] = c

\* the reader has put a k-th message into the queue of the entry c
Queued(c, k) == c <= Len(conns) /\ Len(history[c].enqueued) >= k

\* the loop of start has received the k-th message of the entry c
Served(c, k) == Queued(c, k) /\ Len(history[c].returned) >= k /\ history[c].returned[k] = history[c].enqueued[k]

\* C33: while the loop of start runs, every entry that is in new_clients is
\* eventually among the clients of the loop, and the k-th message queued for
\* an entry that the loop has accepted is eventually received by the loop and
\* passed to process_request; no message is received twice.
C33_LoopServesEveryone ==
    /\ \A c \in 1..MaxEntries : (Running /\ Among(c, new_clients)) ~> Among(c, main_loop.clients)
    /\ \A c \in 1..MaxEntries : \A k \in 1..Cardinality(LoopMessages) :
           (Running /\ Among(c, main_loop.clients) /\ Queued(c, k)) ~> Served(c, k)
    /\ [](\A c \in 1..Len(conns) : Len(history[c].returned) <= Len(history[c].enqueued))

(* ------------------------------------------------------------------ *)
(* Secure entries                                                      *)
(* ------------------------------------------------------------------ *)

\* a secure entry has been created for the client id
HasHadSecureEntry(client) == \E c \in 1..Len(conns) : conns[c].client_id = client /\ conns[c].secure

\* C34: once a client id has a secure entry, the entry of the id in the client
\* table is secure whatever packets arrive, a plain connect frame of the id
\* included, and no packet of the id is taken as a non secure message part,
\* which has neither a salt that is checked nor a text that is decrypted.
C34_SecureStaysSecure ==
    \A client \in DOMAIN clients :
        HasHadSecureEntry(client) =>
            /\ conns[clients[client]].secure
            /\ (packets > 0 /\ last.name = FROM_CLIENT /\ PacketOf[last.value].client = client) => last.branch # "non_secure"

(* ------------------------------------------------------------------ *)
(* What creates a client entry                                         *)
(* ------------------------------------------------------------------ *)

\* the reader has just handled a FROM_CLIENT packet that is no key fragment
\* and no connect frame, from a client id that had no entry
StrayPacketHandled ==
    /\ Handled
    /\ last'.name = FROM_CLIENT
    /\ PacketOf[last'.value].typed /\ PacketOf[last'.value].msg_type # 0 /\ PacketOf[last'.value].dotted
    /\ ~PacketOf[last'.value].is_connect
    /\ PacketOf[last'.value].client \notin DOMAIN clients

\* C35: an entry is created only by a packet whose payload decodes to start
\* with _connect or _safe_connect:, and a packet that is no key fragment and
\* no connect frame, from a client id without an entry, is dropped: it
\* creates no entry and appends nothing to new_clients.
C35_OnlyConnectCreates ==
    [][ /\ (Handled /\ conns' # conns) => PacketOf[last'.value].is_connect
        /\ StrayPacketHandled => conns' = conns /\ clients' = clients /\ new_clients' = new_clients
      ]_vars

(* ------------------------------------------------------------------ *)
(* The salt watermark                                                  *)
(* ------------------------------------------------------------------ *)

\* C36: last_timestamp changes only when a packet is accepted, that is when
\* a secure message part is added to the buffer of its entry or a
\* _safe_connect: frame creates an entry; a packet that is refused (its text
\* does not decrypt, a fragment it refers to is missing, its key is not bound
\* to its salt) leaves last_timestamp as it was.
C36_WatermarkOnlyOnAccept ==
    [][ last_timestamp' # last_timestamp =>
            /\ Handled /\ last'.branch \in {"secure", "safe_connect"}
            /\ conns' # conns
      ]_vars

(* ------------------------------------------------------------------ *)
(* Clients do not disturb one another                                  *)
(* ------------------------------------------------------------------ *)

\* what a packet handler can change of the entry of a client: its partial
\* buffer, its message queue and its secure flag
EntryState(S, client) ==
    [current_msg |-> S.conns[S.clients[client]].current_msg,
     new_msgs |-> S.conns[S.clients[client]].new_msgs,
     secure |-> S.conns[S.clients[client]].secure]

\* the socket as it would be if only client had ever sent packets: the entry
\* of client, if it has one, is the only entry
Alone(client) ==
    [Sock EXCEPT !.clients = IF client \in DOMAIN clients THEN (client :> 1) ELSE <<>>,
                 !.conns = IF client \in DOMAIN clients THEN <<conns[clients[client]]>> ELSE <<>>,
                 !.new_clients = <<>>]

\* the socket after the step
SockAfter ==
    [Sock EXCEPT !.clients = clients', !.conns = conns']

HasFaultySubRequest(p) == parse_sub_requests(requests, trace[p].text).raised # "no"

\* C38: when a message has been processed one of whose sub-requests does not
\* parse, names an unregistered request or uses a disallowed call form, no
\* handler has been invoked for any sub-request of the message, not for those
\* before the faulty one either, and one response has been sent to the
\* client: "The command syntax was wrong.".
C38_FaultyMessageRunsNothing ==
    \A p \in Received :
        HasFaultySubRequest(p) =>
            /\ Of(Round(p), {"call", "dispatch", "start"}) = <<>>
            /\ Len(Of(Round(p), {"send"})) = 1
            /\ Reached(Of(Round(p), {"send"})[1], SYNTAX_WRONG)

(* ------------------------------------------------------------------ *)
(* The client an error is reported for                                 *)
(* ------------------------------------------------------------------ *)

\* the client that sent the request whose execution wrote the i-th item of
\* the trace: the client of the worker, or, in the thread of start, the
\* client of the message received last
SenderOf(i) ==
    IF trace[i].thread # 0 THEN workers[trace[i].thread].client
    ELSE trace[Greatest({p \in Received : p < i})].client

\* C39: every error_in_request event is emitted for the client that sent the
\* failing request, in the thread of start and in a worker, whatever the
\* dispatch loop has processed in the meantime.
C39_ErrorGoesToSender ==
    \A i \in 1..Len(trace) :
        (trace[i].kind = "emit" /\ trace[i].what = "error_in_request") => trace[i].client = SenderOf(i)

(* ------------------------------------------------------------------ *)
(* listen called again                                                 *)
(* ------------------------------------------------------------------ *)

\* C40: however often listen has been called, an inbound packet has the
\* effect of one processing by on_packet: the table, the entries with their
\* queues and buffers, and the list accept pops from are what one call of
\* on_packet makes of them, so that a connect frame adds one entry and one
\* accept result and a terminal part adds one message to the queue.
C40_ListenTwiceIsListenOnce ==
    [][ Handled =>
          \E R \in {on_packet(Sock, last'.name, PacketOf[last'.value], now, "user")} :
              /\ clients' = R.clients
              /\ conns' = R.conns
              /\ new_clients' = R.new_clients
      ]_vars

====
